---- MODULE Spec2Model ----
(***************************************************************************)
(* Dianoia: the shared structured debug logger (shared/debug.ts), modelled  *)
(* as a state machine.  One action per public method of DebugLogger; the   *)
(* private helpers are operators over a logger record                       *)
(*   [config, logBuffer, performanceMetrics, raised].                       *)
(*                                                                         *)
(* JavaScript values are tagged records (Undef, Null, NaN, Num, Str, Bool,  *)
(* Obj, Cyclic).  Wall-clock readings (Date.now(), toISOString()) are a    *)
(* single abstract instant: no claim checked here depends on elapsed time. *)
(***************************************************************************)
EXTENDS Integers, Sequences, FiniteSets, TLC

(***************************************************************************)
(* Bounds of the model                                                     *)
(***************************************************************************)
\* capacity of the ring buffer: `maxBufferSize = 1000` in the source, scaled
\* down so that eviction happens within MaxCalls calls
maxBufferSize == 2
\* number of public calls explored after construction
MaxCalls == 3
\* number of distinct `${Date.now()}_${random}` suffixes an identifier can get
NSuffix == 2
\* capacity of the frontend logger: `maxLogs: 1000` in the source, scaled down
maxLogs == 3

(***************************************************************************)
(* JavaScript values                                                       *)
(***************************************************************************)
Undef == [t |-> "undefined"]
Null == [t |-> "null"]
NaN == [t |-> "NaN"]
Num(n) == [t |-> "number", n |-> n]
Str(s) == [t |-> "string", s |-> s]
Bool(b) == [t |-> "boolean", b |-> b]
Obj(f) == [t |-> "object", f |-> f]
Arr(a) == [t |-> "array", a |-> a]
\* the object  o = {}; o.self = o : its one property refers back to itself
Cyclic == [t |-> "cyclic"]
NoProps == [k \in {} |-> Undef]
EmptyObj == Obj(NoProps)
\* a generated identifier `${operation}_${Date.now()}_${random}`; the empty
\* string '' is the identifier with no operation and suffix 0
Id(operation, suffix) == [operation |-> operation, suffix |-> suffix]
EmptyId == Id("", 0)
\* string values whose content is an identifier or a template message
StrId(id) == [t |-> "string", id |-> id]
Msg(text, arg) == [t |-> "string", text |-> text, arg |-> arg]

\* ToBoolean, as used by `if (x)`, `!x`, `x ? a : b`
Truthy(v) ==
    CASE v.t = "undefined" -> FALSE
      [] v.t = "null" -> FALSE
      [] v.t = "NaN" -> FALSE
      [] v.t = "number" -> v.n # 0
      [] v.t = "string" -> IF "s" \in DOMAIN v THEN v.s # ""
                           ELSE IF "id" \in DOMAIN v THEN v.id # EmptyId
                           ELSE TRUE
      [] v.t = "boolean" -> v.b
      [] OTHER -> TRUE

\* the own enumerable properties of a value
Props(v) ==
    CASE v.t = "object" -> v.f
      [] v.t = "cyclic" -> [self |-> Cyclic]
      [] OTHER -> NoProps

\* property read obj[key]: a missing key reads as undefined
Get(o, k) == IF k \in DOMAIN Props(o) THEN Props(o)[k] ELSE Undef

\* Object.keys(obj)
Keys(o) == DOMAIN Props(o)

\* a !== b: NaN is unequal to everything, itself included; two object
\* operands are equal only when they are the same reference, which the model
\* identifies with the same value
StrictNotEqual(a, b) == a.t = "NaN" \/ b.t = "NaN" \/ a # b

\* { ...a, ...b } for object or nullish operands
Spread(a, b) ==
    LET fa == Props(a)
        fb == Props(b)
    IN  Obj([k \in DOMAIN fa \cup DOMAIN fb |->
                IF k \in DOMAIN fb THEN fb[k] ELSE fa[k]])

(***************************************************************************)
(* JSON.stringify / JSON.parse                                             *)
(***************************************************************************)
RECURSIVE HasCycle(_)
\* JSON.stringify raises a TypeError on a value that contains a cycle
HasCycle(v) ==
    CASE v.t = "cyclic" -> TRUE
      [] v.t = "object" -> \E k \in DOMAIN v.f : HasCycle(v.f[k])
      [] v.t = "array" -> \E i \in 1..Len(v.a) : HasCycle(v.a[i])
      [] OTHER -> FALSE

RECURSIVE JSONtext(_)
\* the JSON document JSON.stringify writes for a cycle-free value, as a
\* syntax tree.  JSON has no NaN and no undefined: NaN is written as null, a
\* property whose value is undefined is left out, an undefined array element
\* is written as null.
JSONtext(v) ==
    CASE v.t = "null" -> [j |-> "null"]
      [] v.t = "NaN" -> [j |-> "null"]
      [] v.t = "number" -> [j |-> "number", digits |-> v.n]
      [] v.t = "boolean" -> [j |-> IF v.b THEN "true" ELSE "false"]
      [] v.t = "string" -> [j |-> "string", chars |-> v]
      [] v.t = "array" ->
            [j |-> "array",
             elements |-> [i \in 1..Len(v.a) |->
                             IF v.a[i].t = "undefined" THEN [j |-> "null"]
                             ELSE JSONtext(v.a[i])]]
      [] v.t = "object" ->
            [j |-> "object",
             members |-> [k \in {m \in DOMAIN v.f : v.f[m].t # "undefined"} |->
                            JSONtext(v.f[k])]]
      [] OTHER -> [j |-> "none"]

\* JSON.stringify(value): either raises or yields a document
JSONstringify(v) ==
    IF HasCycle(v) THEN [threw |-> TRUE, text |-> [j |-> "none"]]
    ELSE [threw |-> FALSE, text |-> JSONtext(v)]

RECURSIVE JSONparse(_)
\* JSON.parse(document): the value the document denotes
JSONparse(doc) ==
    CASE doc.j = "null" -> Null
      [] doc.j = "number" -> Num(doc.digits)
      [] doc.j = "true" -> Bool(TRUE)
      [] doc.j = "false" -> Bool(FALSE)
      [] doc.j = "string" -> doc.chars
      [] doc.j = "array" ->
            Arr([i \in 1..Len(doc.elements) |-> JSONparse(doc.elements[i])])
      [] doc.j = "object" ->
            Obj([k \in DOMAIN doc.members |-> JSONparse(doc.members[k])])
      [] OTHER -> Undef

(***************************************************************************)
(* DebugConfig                                                             *)
(***************************************************************************)
levels == <<"error", "warn", "info", "debug", "trace">>
LevelSet == {levels[i] : i \in 1..Len(levels)}

\* Array.prototype.indexOf: zero-based position, -1 when absent
indexOf(arr, x) ==
    IF \E i \in 1..Len(arr) : arr[i] = x
    THEN (CHOOSE i \in 1..Len(arr) :
            arr[i] = x /\ \A j \in 1..(i - 1) : arr[j] # x) - 1
    ELSE -1

DefaultConfig ==
    [enabled |-> TRUE, level |-> "debug", includeTimestamps |-> TRUE,
     includePerformance |-> TRUE, includeStackTraces |-> TRUE,
     logToConsole |-> TRUE, logToFile |-> FALSE]

\* { ...config, ...newConfig }
MergeConfig(cfg, partial) ==
    [k \in DOMAIN cfg \cup DOMAIN partial |->
        IF k \in DOMAIN partial THEN partial[k] ELSE cfg[k]]

\* the configuration as the object that is put into a log entry
ConfigObj(cfg) ==
    Obj([enabled |-> Bool(cfg.enabled), level |-> Str(cfg.level),
         includeTimestamps |-> Bool(cfg.includeTimestamps),
         includePerformance |-> Bool(cfg.includePerformance),
         includeStackTraces |-> Bool(cfg.includeStackTraces),
         logToConsole |-> Bool(cfg.logToConsole),
         logToFile |-> Bool(cfg.logToFile)])

shouldLog(cfg, level) ==
    IF ~cfg.enabled THEN FALSE
    ELSE indexOf(levels, level) <= indexOf(levels, cfg.level)

(***************************************************************************)
(* Log entries                                                             *)
(***************************************************************************)
\* Date.now() / new Date().toISOString(): the one abstract instant
Now == Num(1)

createLogEntry(cfg, level, component, action, message, data, context) ==
    [timestamp |-> Str("now"), level |-> level, component |-> component,
     action |-> action, message |-> message, data |-> data,
     context |-> context,
     performance |-> IF cfg.includePerformance
                     THEN Obj([duration |-> Now]) ELSE Undef]

\* formatLogEntry builds a string; its only failure is the JSON.stringify of
\* a context that is present
formatLogEntryThrows(entry) ==
    Truthy(entry.context) /\ JSONstringify(entry.context).threw

\* variant of pushEntry: pop() instead of shift(), which drops the entry just
\* pushed instead of the oldest one
pushEntry_dropsNewest(buf, entry) ==
    LET pushed == Append(buf, entry)
    IN  IF Len(pushed) > maxBufferSize THEN buf ELSE pushed

\* variant of pushEntry: unshift() / pop(), which puts the new entry in front
\* of the older ones
pushEntry_unshift(buf, entry) ==
    LET pushed == <<entry>> \o buf
    IN  IF Len(pushed) > maxBufferSize
        THEN SubSeq(pushed, 1, maxBufferSize) ELSE pushed

\* logBuffer.push(entry); if (length > maxBufferSize) logBuffer.shift()
pushEntry(buf, entry) ==
    LET pushed == Append(buf, entry)
    IN  IF Len(pushed) > maxBufferSize THEN Tail(pushed) ELSE pushed

\* outputLog on the logger record L; a raised exception leaves L untouched
\* apart from the flag
outputLog(L, entry) ==
    IF ~shouldLog(L.config, entry.level) THEN L
    ELSE IF formatLogEntryThrows(entry) THEN [L EXCEPT !.raised = TRUE]
    ELSE [L EXCEPT !.logBuffer = pushEntry(@, entry),
                   !.accepted = Append(@, entry)]

\* error / warn / info / debug / trace
leveled(L, level, component, action, message, data, context) ==
    outputLog(L, createLogEntry(L.config, level, component, action,
                                message, data, context))

\* log is an alias of debug
MethodLevel(method) == IF method = "log" THEN "debug" ELSE method
Methods == LevelSet \cup {"log"}

(***************************************************************************)
(* State                                                                   *)
(***************************************************************************)
VARIABLES
    config,              \* DebugLogger.config
    logBuffer,           \* DebugLogger.logBuffer
    performanceMetrics,  \* DebugLogger.performanceMetrics: id -> metric
    accepted,            \* history: entries pushed since the buffer was last reset
    last,                \* the call that produced this state, and its outcome
    calls,               \* number of public calls made so far
    openRequests,        \* backend: the res.send closures of requests not yet answered
    sessionKeys,         \* backend llmService: sessionId -> LLMConfig
    pendingLLM,          \* backend llmService: generateArgument calls awaiting the provider
    processEnv,          \* backend: process.env of the server process
    store,               \* frontend: the zustand state
    storage,             \* frontend: window.localStorage
    feLogger,            \* frontend utils/debug: [logs, config]
    generation,          \* frontend: handleAction calls awaiting the backend
    page                 \* frontend: the page's module state (api.ts, App)

\* the state of the applications built around the shared logger
backendVars == <<openRequests, sessionKeys, pendingLLM, processEnv>>
frontendVars == <<store, storage, feLogger, generation, page>>
appVars == <<backendVars, frontendVars>>

vars ==
    <<config, logBuffer, performanceMetrics, accepted, last, calls, appVars>>

Logger ==
    [config |-> config, logBuffer |-> logBuffer,
     performanceMetrics |-> performanceMetrics, accepted |-> accepted,
     raised |-> FALSE]

\* the logger variables after a call that took the logger record to L
CommitLogger(L, call) ==
    /\ calls' = calls + 1
    /\ config' = L.config
    /\ logBuffer' = L.logBuffer
    /\ performanceMetrics' = L.performanceMetrics
    /\ accepted' = L.accepted
    /\ last' = call @@ [raised |-> L.raised]

\* a call on the logger alone: the applications are not involved
Commit(L, call) == CommitLogger(L, call) /\ UNCHANGED appVars

(***************************************************************************)
(* Timers                                                                  *)
(***************************************************************************)
Suffixes == 1..NSuffix
Operations == {"op"}
TimerIds == {Id(o, x) : o \in Operations, x \in Suffixes}

\* variant of startTimer: the guard tests includePerformance only
startTimer_ignoresEnabled(L, operation, metadata, suffix) ==
    IF ~L.config.includePerformance
    THEN [L |-> L, ret |-> EmptyId]
    ELSE LET timerId == Id(operation, suffix)
             metric == [operation |-> operation, startTime |-> Now,
                        metadata |-> metadata]
             L1 == [L EXCEPT !.performanceMetrics =
                        [i \in DOMAIN @ \cup {timerId} |->
                            IF i = timerId THEN metric ELSE @[i]]]
             L2 == leveled(L1, "trace", "performance", "timer_start",
                           Msg("Started timer for: ", Str(operation)),
                           Obj([timerId |-> StrId(timerId),
                                metadata |-> metadata]), Undef)
         IN  [L |-> L2, ret |-> timerId]

\* startTimer on the logger record; yields the record and the returned id
startTimer(L, operation, metadata, suffix) ==
    IF ~L.config.enabled \/ ~L.config.includePerformance
    THEN [L |-> L, ret |-> EmptyId]
    ELSE LET timerId == Id(operation, suffix)
             metric == [operation |-> operation, startTime |-> Now,
                        metadata |-> metadata]
             L1 == [L EXCEPT !.performanceMetrics =
                        [i \in DOMAIN @ \cup {timerId} |->
                            IF i = timerId THEN metric ELSE @[i]]]
             L2 == leveled(L1, "trace", "performance", "timer_start",
                           Msg("Started timer for: ", Str(operation)),
                           Obj([timerId |-> StrId(timerId),
                                metadata |-> metadata]), Undef)
         IN  [L |-> L2, ret |-> timerId]

\* variant of endTimer: the metric is not deleted after the completion entry
endTimer_keepsMetric(L, timerId, additionalData) ==
    IF ~L.config.enabled \/ ~L.config.includePerformance
       \/ ~Truthy(StrId(timerId))
    THEN L
    ELSE IF timerId \notin DOMAIN L.performanceMetrics
    THEN leveled(L, "warn", "performance", "timer_end",
                 Msg("Timer not found: ", StrId(timerId)), Undef, Undef)
    ELSE LET metric == L.performanceMetrics[timerId]
         IN  leveled(L, "info", "performance", "timer_end",
                     Msg("Completed: ", Str(metric.operation)),
                     Spread(Obj([duration |-> Str("0.00ms"),
                                 operation |-> Str(metric.operation),
                                 metadata |-> metric.metadata]),
                            additionalData),
                     Undef)

\* variant of endTimer: the metric is deleted only when the completion entry
\* passes the level filter
endTimer_deletesWhenLogged(L, timerId, additionalData) ==
    IF ~L.config.enabled \/ ~L.config.includePerformance
       \/ ~Truthy(StrId(timerId))
    THEN L
    ELSE IF timerId \notin DOMAIN L.performanceMetrics
    THEN leveled(L, "warn", "performance", "timer_end",
                 Msg("Timer not found: ", StrId(timerId)), Undef, Undef)
    ELSE LET metric == L.performanceMetrics[timerId]
             L1 == leveled(L, "info", "performance", "timer_end",
                           Msg("Completed: ", Str(metric.operation)),
                           Spread(Obj([duration |-> Str("0.00ms"),
                                       operation |-> Str(metric.operation),
                                       metadata |-> metric.metadata]),
                                  additionalData),
                           Undef)
         IN  IF shouldLog(L.config, "info")
             THEN [L1 EXCEPT !.performanceMetrics =
                      [i \in DOMAIN @ \ {timerId} |-> @[i]]]
             ELSE L1

\* variant of endTimer: the guard does not test the identifier
endTimer_looksUpEmptyId(L, timerId, additionalData) ==
    IF ~L.config.enabled \/ ~L.config.includePerformance
    THEN L
    ELSE IF timerId \notin DOMAIN L.performanceMetrics
    THEN leveled(L, "warn", "performance", "timer_end",
                 Msg("Timer not found: ", StrId(timerId)), Undef, Undef)
    ELSE LET metric == L.performanceMetrics[timerId]
             L1 == leveled(L, "info", "performance", "timer_end",
                           Msg("Completed: ", Str(metric.operation)),
                           Spread(Obj([duration |-> Str("0.00ms"),
                                       operation |-> Str(metric.operation),
                                       metadata |-> metric.metadata]),
                                  additionalData),
                           Undef)
         IN  [L1 EXCEPT !.performanceMetrics =
                 [i \in DOMAIN @ \ {timerId} |-> @[i]]]

endTimer(L, timerId, additionalData) ==
    IF ~L.config.enabled \/ ~L.config.includePerformance
       \/ ~Truthy(StrId(timerId))
    THEN L
    ELSE IF timerId \notin DOMAIN L.performanceMetrics
    THEN leveled(L, "warn", "performance", "timer_end",
                 Msg("Timer not found: ", StrId(timerId)), Undef, Undef)
    ELSE LET metric == L.performanceMetrics[timerId]
             L1 == leveled(L, "info", "performance", "timer_end",
                           Msg("Completed: ", Str(metric.operation)),
                           Spread(Obj([duration |-> Str("0.00ms"),
                                       operation |-> Str(metric.operation),
                                       metadata |-> metric.metadata]),
                                  additionalData),
                           Undef)
         IN  [L1 EXCEPT !.performanceMetrics =
                 [i \in DOMAIN @ \ {timerId} |-> @[i]]]

(***************************************************************************)
(* Tracking helpers                                                        *)
(***************************************************************************)
\* reading error.name of null or undefined raises a TypeError
trackError(L, error, component, action, context) ==
    IF error.t \in {"undefined", "null"} THEN [L EXCEPT !.raised = TRUE]
    ELSE LET errorData ==
                 Obj([name |-> Get(error, "name"),
                      message |-> Get(error, "message"),
                      stack |-> IF L.config.includeStackTraces
                                THEN Get(error, "stack") ELSE Undef])
         IN  leveled(L, "error", component, action,
                     Msg("Error: ", Get(error, "message")), errorData,
                     context)

trackAPIRequest(L, method, url, data, context, suffix) ==
    LET requestId == Id("req", suffix)
        L1 == leveled(L, "info", "api", "request", Msg(method, Str(url)),
                      Obj([method |-> Str(method), url |-> Str(url),
                           data |-> data, requestId |-> StrId(requestId)]),
                      Spread(context, Obj([requestId |-> StrId(requestId)])))
    IN  [L |-> L1, ret |-> requestId]

\* variant of trackAPIResponse: the context is passed on as given, without
\* the requestId
trackAPIResponse_dropsRequestId(L, requestId, status, data, duration, context) ==
    leveled(L, "info", "api", "response",
            Msg("Response for ", StrId(requestId)),
            Obj([status |-> status, data |-> data,
                 duration |-> IF Truthy(duration) THEN Str("0.00ms")
                              ELSE Undef]),
            context)

trackAPIResponse(L, requestId, status, data, duration, context) ==
    leveled(L, "info", "api", "response",
            Msg("Response for ", StrId(requestId)),
            Obj([status |-> status, data |-> data,
                 duration |-> IF Truthy(duration) THEN Str("0.00ms")
                              ELSE Undef]),
            Spread(context, Obj([requestId |-> StrId(requestId)])))

\* variant of getStateChanges: only the keys of the new state are visited
getStateChanges_newKeysOnly(oldState, newState) ==
    IF ~Truthy(oldState) \/ ~Truthy(newState) THEN EmptyObj
    ELSE Obj([key \in {k \in Keys(newState) :
                          StrictNotEqual(Get(oldState, k),
                                         Get(newState, k))} |->
                Obj([from |-> Get(oldState, key),
                     to |-> Get(newState, key)])])

getStateChanges(oldState, newState) ==
    IF ~Truthy(oldState) \/ ~Truthy(newState) THEN EmptyObj
    ELSE LET allKeys == Keys(oldState) \cup Keys(newState)
         IN  Obj([key \in {k \in allKeys :
                              StrictNotEqual(Get(oldState, k),
                                             Get(newState, k))} |->
                    Obj([from |-> Get(oldState, key),
                         to |-> Get(newState, key)])])

trackStateChange(L, component, action, oldState, newState, context) ==
    leveled(L, "debug", "state", "change",
            Msg(component, Str(action)),
            Obj([oldState |-> oldState, newState |-> newState,
                 changes |-> getStateChanges(oldState, newState)]),
            context)

(***************************************************************************)
(* Configuration and buffer access                                         *)
(***************************************************************************)
\* variant of updateConfig: the entry is emitted before the configuration is
\* replaced, so it is filtered by the old configuration
updateConfig_logsBeforeMerge(L, newConfig) ==
    LET oldConfig == L.config
        merged == MergeConfig(L.config, newConfig)
        L1 == leveled(L, "info", "system", "config_update",
                      Msg("Debug configuration updated", Undef),
                      Obj([oldConfig |-> ConfigObj(oldConfig),
                           newConfig |-> ConfigObj(merged)]), Undef)
    IN  [L1 EXCEPT !.config = merged]

updateConfig(L, newConfig) ==
    LET oldConfig == L.config
        L1 == [L EXCEPT !.config = MergeConfig(@, newConfig)]
    IN  leveled(L1, "info", "system", "config_update",
                Msg("Debug configuration updated", Undef),
                Obj([oldConfig |-> ConfigObj(oldConfig),
                     newConfig |-> ConfigObj(L1.config)]), Undef)

getConfig(L) == L.config

getLogs(L) == L.logBuffer

\* variant of clearLogs: the buffer is not emptied before the entry is logged
clearLogs_keepsBuffer(L) ==
    leveled(L, "info", "system", "logs_cleared",
            Msg("Debug logs cleared", Undef), Undef, Undef)

clearLogs(L) ==
    LET L1 == [L EXCEPT !.logBuffer = <<>>, !.accepted = <<>>]
    IN  leveled(L1, "info", "system", "logs_cleared",
                Msg("Debug logs cleared", Undef), Undef, Undef)

\* a LogEntry as the object held in the buffer: `performance` is a property
\* only when createLogEntry attached it
EntryObj(e) ==
    LET base == [timestamp |-> e.timestamp, level |-> Str(e.level),
                 component |-> Str(e.component), action |-> Str(e.action),
                 message |-> e.message, data |-> e.data,
                 context |-> e.context]
    IN  Obj(IF e.performance.t = "undefined" THEN base
            ELSE [k \in DOMAIN base \cup {"performance"} |->
                    IF k = "performance" THEN e.performance ELSE base[k]])

\* variant of exportLogs: the entries are written newest first
exportLogs_newestFirst(L) ==
    JSONstringify(Arr([i \in 1..Len(L.logBuffer) |->
                          EntryObj(L.logBuffer[Len(L.logBuffer) + 1 - i])]))

\* exportLogs: JSON.stringify(this.logBuffer, null, 2)
exportLogs(L) ==
    JSONstringify(Arr([i \in 1..Len(L.logBuffer) |-> EntryObj(L.logBuffer[i])]))

(***************************************************************************)
(* Construction                                                            *)
(***************************************************************************)
\* variant of initializeDebugMode: the announcement is decided by the enabled
\* flag the constructor was given, before the overrides are applied
initializeDebugMode_testsEarly(L, envDebug, envLevel, hasStorage, lsEnabled, lsLevel, environment) ==
    LET c1 == IF envDebug = Str("false")
              THEN [L.config EXCEPT !.enabled = FALSE]
              ELSE IF Truthy(envLevel)
              THEN [L.config EXCEPT !.level = envLevel.s]
              ELSE L.config
        c2 == IF ~hasStorage THEN c1
              ELSE IF lsEnabled = Str("false") THEN [c1 EXCEPT !.enabled = FALSE]
              ELSE IF lsEnabled = Str("true") THEN [c1 EXCEPT !.enabled = TRUE]
              ELSE c1
        c3 == IF hasStorage /\ Truthy(lsLevel) /\ lsLevel.s \in LevelSet
              THEN [c2 EXCEPT !.level = lsLevel.s] ELSE c2
        L1 == [L EXCEPT !.config = c3]
    IN  IF L.config.enabled
        THEN leveled(L1, "debug", "system", "debug_init",
                     Msg("Debug system initialized", Undef),
                     Obj([config |-> ConfigObj(c3),
                          environment |-> Str(environment),
                          timestamp |-> Str("now")]), Undef)
        ELSE L1

\* initializeDebugMode; envDebug / envLevel are process.env.DIANOIA_DEBUG and
\* process.env.DIANOIA_DEBUG_LEVEL (Undef when unset or not under Node),
\* lsEnabled / lsLevel what localStorage.getItem returns (Null when the key
\* or the storage is missing)
initializeDebugMode(L, envDebug, envLevel, hasStorage, lsEnabled, lsLevel, environment) ==
    LET c1 == IF envDebug = Str("false")
              THEN [L.config EXCEPT !.enabled = FALSE]
              ELSE IF Truthy(envLevel)
              THEN [L.config EXCEPT !.level = envLevel.s]
              ELSE L.config
        c2 == IF ~hasStorage THEN c1
              ELSE IF lsEnabled = Str("false") THEN [c1 EXCEPT !.enabled = FALSE]
              ELSE IF lsEnabled = Str("true") THEN [c1 EXCEPT !.enabled = TRUE]
              ELSE c1
        c3 == IF hasStorage /\ Truthy(lsLevel) /\ lsLevel.s \in LevelSet
              THEN [c2 EXCEPT !.level = lsLevel.s] ELSE c2
        L1 == [L EXCEPT !.config = c3]
    IN  IF c3.enabled
        THEN leveled(L1, "debug", "system", "debug_init",
                     Msg("Debug system initialized", Undef),
                     Obj([config |-> ConfigObj(c3),
                          environment |-> Str(environment),
                          timestamp |-> Str("now")]), Undef)
        ELSE L1

\* new DebugLogger(config)
constructor(cfg, envDebug, envLevel, hasStorage, lsEnabled, lsLevel, environment) ==
    initializeDebugMode(
        [config |-> MergeConfig(DefaultConfig, cfg), logBuffer |-> <<>>,
         performanceMetrics |-> [i \in {} |-> Undef], accepted |-> <<>>,
         raised |-> FALSE],
        envDebug, envLevel, hasStorage, lsEnabled, lsLevel, environment)

(***************************************************************************)
(* Inputs                                                                  *)
(***************************************************************************)
PlainContext == Obj([sessionId |-> Str("s1")])
PlainData == Obj([x |-> Num(1)])
\* (data, context) pairs given to the leveled methods: every method is called
\* without payload; the most and the least severe method are also called
\* with a NaN in the data, with a cyclic context and with cyclic data
Payloads(method) ==
    IF method \in {"error", "trace"}
    THEN {<<Undef, Undef>>, <<Obj([ratio |-> NaN]), PlainContext>>,
          <<Undef, Cyclic>>, <<Cyclic, Undef>>}
    ELSE {<<Undef, Undef>>}
\* what a catch block can hand to trackError
SomeError ==
    Obj([name |-> Str("Error"), message |-> Str("boom"),
         stack |-> Str("Error: boom at f")])
Errors == {SomeError, Undef}
\* (oldState, newState) pairs given to trackStateChange
StatePairs ==
    {<<Obj([a |-> Num(1), b |-> Num(2)]),
       Obj([a |-> Num(1), b |-> Num(3), c |-> Num(4)])>>,
     <<Null, Obj([a |-> Num(1)])>>}
\* partial configurations given to updateConfig
ConfigUpdates ==
    {[level |-> l] : l \in LevelSet}
        \cup {[enabled |-> b] : b \in BOOLEAN}
        \cup {[includePerformance |-> b] : b \in BOOLEAN}
\* (DIANOIA_DEBUG, DIANOIA_DEBUG_LEVEL) of the server process
Environments ==
    {<<Undef, Undef>>, <<Str("false"), Undef>>, <<Undef, Str("verbose")>>}

\* the record of a call: the method, its identifying argument (the timer id of
\* endTimer, the partial configuration of updateConfig), what it returned
Call(op, arg, ret) == [op |-> op, arg |-> arg, ret |-> ret]

(***************************************************************************)
(* The applications before they have done anything                         *)
(***************************************************************************)
\* the frontend logger's configuration as declared
feDefaultConfig == [enabled |-> TRUE, logLevel |-> "info", maxLogs |-> maxLogs]
\* the zustand store as created
StoreInit ==
    [nodes |-> <<>>, edges |-> <<>>, selectedNode |-> Null,
     isLoading |-> FALSE]
\* localStorage.getItem of a key that was never set
NoItem == [j |-> "none"]
\* localStorage with neither a graph nor a provider in it
NoStorage == [graph |-> NoItem, dianoia_provider |-> NoItem]
\* no page is loaded
NoPage == [sessionId |-> "", apiKeyReady |-> FALSE, setup |-> "idle"]
NoKeys == [k \in {} |-> Undef]

IdleApp ==
    /\ openRequests = <<>>
    /\ sessionKeys = NoKeys
    /\ pendingLLM = <<>>
    /\ processEnv = [OPENAI_API_KEY |-> Undef]
    /\ store = StoreInit
    /\ storage = NoStorage
    /\ feLogger = [logs |-> <<>>, config |-> feDefaultConfig, timers |-> {}]
    /\ generation = <<>>
    /\ page = NoPage

(***************************************************************************)
(* Initial state: `export const debugLogger = new DebugLogger()` on Node   *)
(***************************************************************************)
Init ==
    \E env \in Environments :
        LET L == constructor(NoProps, env[1], env[2], FALSE, Null, Null, "node")
        IN  /\ config = L.config
            /\ logBuffer = L.logBuffer
            /\ performanceMetrics = L.performanceMetrics
            /\ accepted = L.accepted
            /\ last = Call("constructor", Undef, Undef) @@ [raised |-> L.raised]
            /\ calls = 0
            /\ IdleApp

(***************************************************************************)
(* Actions: one per public method                                          *)
(***************************************************************************)
Leveled ==
    /\ calls < MaxCalls
    /\ \E method \in Methods : \E p \in Payloads(method) :
           Commit(leveled(Logger, MethodLevel(method), "app", "event",
                          Msg("message", Undef), p[1], p[2]),
                  Call(method, Undef, Undef))

StartTimer ==
    /\ calls < MaxCalls
    /\ \E operation \in Operations, suffix \in Suffixes :
           LET r == startTimer(Logger, operation, Undef, suffix)
           IN  Commit(r.L, Call("startTimer", Undef, r.ret))

EndTimer ==
    /\ calls < MaxCalls
    /\ \E timerId \in TimerIds \cup {EmptyId} :
           Commit(endTimer(Logger, timerId, Undef),
                  Call("endTimer", timerId, Undef))

TrackError ==
    /\ calls < MaxCalls
    /\ \E error \in Errors, context \in {Undef} :
           Commit(trackError(Logger, error, "app", "failed", context),
                  Call("trackError", Undef, Undef))

TrackAPIRequest ==
    /\ calls < MaxCalls
    /\ \E suffix \in Suffixes, context \in {PlainContext} :
           LET r == trackAPIRequest(Logger, "POST", "/api/generate", PlainData,
                                    context, suffix)
           IN  Commit(r.L, Call("trackAPIRequest", Undef, r.ret))

TrackAPIResponse ==
    /\ calls < MaxCalls
    /\ \E suffix \in Suffixes, duration \in {Undef} :
           Commit(trackAPIResponse(Logger, Id("req", suffix), Num(200),
                                   PlainData, duration, Undef),
                  Call("trackAPIResponse", Undef, Undef))

TrackStateChange ==
    /\ calls < MaxCalls
    /\ \E sp \in StatePairs :
           Commit(trackStateChange(Logger, "store", "add_node", sp[1], sp[2],
                                   Undef),
                  Call("trackStateChange", Undef, Undef))

UpdateConfig ==
    /\ calls < MaxCalls
    /\ \E newConfig \in ConfigUpdates :
           Commit(updateConfig(Logger, newConfig),
                  Call("updateConfig", newConfig, Undef))

GetConfig ==
    /\ calls < MaxCalls
    /\ Commit(Logger, Call("getConfig", Undef, getConfig(Logger)))

GetLogs ==
    /\ calls < MaxCalls
    /\ Commit(Logger, Call("getLogs", Undef, getLogs(Logger)))

ClearLogs ==
    /\ calls < MaxCalls
    /\ Commit(clearLogs(Logger), Call("clearLogs", Undef, Undef))

ExportLogs ==
    /\ calls < MaxCalls
    /\ LET r == exportLogs(Logger)
       IN  Commit([Logger EXCEPT !.raised = r.threw],
                  Call("exportLogs", Undef, r.text))

Next ==
    \/ Leveled
    \/ StartTimer
    \/ EndTimer
    \/ TrackError
    \/ TrackAPIRequest
    \/ TrackAPIResponse
    \/ TrackStateChange
    \/ UpdateConfig
    \/ GetConfig
    \/ GetLogs
    \/ ClearLogs
    \/ ExportLogs

Spec == Init /\ [][Next]_vars

(***************************************************************************)
(* The state-diff helper on its own: one trackStateChange call on the      *)
(* freshly constructed logger, for every pair of small state objects       *)
(***************************************************************************)
DiffKeys == {"a", "b", "c"}
\* a nested object { n: 1 }; ref tells apart two objects of equal content
Nested(ref) == [t |-> "object", f |-> [n |-> Num(1)], ref |-> ref]
\* property values: two numbers, NaN, and two distinct nested objects
DiffValues == {Num(1), Num(2), NaN, Nested(1), Nested(2)}
\* every object over DiffKeys: a key is absent or holds one of DiffValues
StateObjects ==
    UNION {{Obj(f) : f \in [ks -> DiffValues]} : ks \in SUBSET DiffKeys}

TrackStateChangeOnce ==
    /\ calls = 0
    /\ \E oldState \in StateObjects \cup {Null}, newState \in StateObjects :
          Commit(trackStateChange(Logger, "store", "add_node", oldState,
                                  newState, Undef),
                 Call("trackStateChange", Undef, Undef))

SpecDiff == Init /\ [][TrackStateChangeOnce]_vars

(***************************************************************************)
(* Vocabulary of the properties                                            *)
(***************************************************************************)
Rank(level) == indexOf(levels, level)
Min(a, b) == IF a < b THEN a ELSE b

\* this step is a call of the public method op
Called(op) == calls' = calls + 1 /\ last'.op = op

\* this step pushed exactly one entry, which satisfies P, evicting the oldest
\* entry when the buffer was full
AppendsOne(P(_)) ==
    /\ Len(logBuffer') > 0
    /\ LET e == logBuffer'[Len(logBuffer')]
       IN  /\ P(e)
           /\ accepted' = Append(accepted, e)
           /\ logBuffer' = IF Len(logBuffer) < maxBufferSize
                           THEN Append(logBuffer, e)
                           ELSE Append(Tail(logBuffer), e)

\* this step pushed nothing
AppendsNothing == logBuffer' = logBuffer /\ accepted' = accepted

IsTimerNotFound(e, id) ==
    /\ e.level = "warn"
    /\ e.component = "performance"
    /\ e.action = "timer_end"
    /\ e.message = Msg("Timer not found: ", StrId(id))

IsCompletion(e) ==
    /\ e.level = "info"
    /\ e.action = "timer_end"
    /\ e.message.text = "Completed: "

IsLogsCleared(e) ==
    e.level = "info" /\ e.component = "system" /\ e.action = "logs_cleared"

IsConfigUpdate(e, old, new) ==
    /\ e.level = "info"
    /\ e.component = "system"
    /\ e.action = "config_update"
    /\ e.data = Obj([oldConfig |-> ConfigObj(old), newConfig |-> ConfigObj(new)])

\* the levels that admit a warn entry, and those that admit an info entry
AdmitsWarn == {"warn", "info", "debug", "trace"}
AdmitsInfo == {"info", "debug", "trace"}

(***************************************************************************)
(* C1..C10                                                                 *)
(***************************************************************************)

\* C1: on an enabled logger whose level L is one of the five levels, a call of
\* a leveled method M (log counting as debug) appends exactly one entry, of
\* level M, when rank(M) <= rank(L), and appends nothing otherwise.
C1_LevelFilter ==
    [][\A m \in Methods :
          (Called(m) /\ config.enabled /\ config.level \in LevelSet) =>
              IF Rank(MethodLevel(m)) <= Rank(config.level)
              THEN AppendsOne(LAMBDA e : e.level = MethodLevel(m))
              ELSE AppendsNothing]_vars

\* C2: the buffer never holds more than maxBufferSize entries and always
\* equals the most recent min(n, maxBufferSize) of the n entries accepted
\* since the buffer was last reset, in acceptance order.
C2_BoundedFifo ==
    LET n == Len(accepted)
        kept == Min(n, maxBufferSize)
    IN  /\ Len(logBuffer) <= maxBufferSize
        /\ logBuffer = SubSeq(accepted, n - kept + 1, n)

\* C2 witness: more entries were accepted than the buffer holds, so the
\* oldest have been evicted.
C2_Evicted ==
    Len(accepted) > maxBufferSize /\ Len(logBuffer) = maxBufferSize

\* C3: while enabled is false, every leveled call and every timer call leaves
\* the buffer and the timer map unchanged and raises nothing, and startTimer
\* returns the empty identifier.
C3_DisabledNoOp ==
    [][\A op \in Methods \cup {"startTimer", "endTimer"} :
          (Called(op) /\ ~config.enabled) =>
              /\ AppendsNothing
              /\ performanceMetrics' = performanceMetrics
              /\ ~last'.raised
              /\ (op = "startTimer" => last'.ret = EmptyId)]_vars

\* C3 witness: startTimer was called on a disabled logger.
C3_DisabledStartTimer ==
    /\ ~config.enabled
    /\ last.op = "startTimer"
    /\ last.ret = EmptyId
    /\ DOMAIN performanceMetrics = {}

\* C4: updateConfig takes effect at once: after updateConfig({level:'error'})
\* the level read back is 'error'; while the level is 'error' on an enabled
\* logger every warn/info/debug/trace/log call appends nothing and every
\* error call appends one entry; the configuration after any updateConfig is
\* the old one shallow-merged with the update.
C4_UpdateImmediate ==
    [][/\ Called("updateConfig") =>
            /\ config' = MergeConfig(config, last'.arg)
            /\ (last'.arg = [level |-> "error"] => config'.level = "error")
       /\ \A m \in Methods :
            (Called(m) /\ config.enabled /\ config.level = "error") =>
                IF m = "error"
                THEN AppendsOne(LAMBDA e : e.level = "error")
                ELSE AppendsNothing]_vars

\* C5 as stated, on an enabled logger that tracks performance and has one of
\* the five levels: endTimer of a generated identifier that is not (or no
\* longer) in the timer map appends a warn-level 'Timer not found' entry,
\* leaves the timer map unchanged and raises nothing.
C5_AlwaysWarns ==
    [][\A id \in TimerIds :
          (Called("endTimer") /\ last'.arg = id
             /\ id \notin DOMAIN performanceMetrics
             /\ config.enabled /\ config.includePerformance
             /\ config.level \in LevelSet) =>
              /\ AppendsOne(LAMBDA e : IsTimerNotFound(e, id))
              /\ performanceMetrics' = performanceMetrics
              /\ ~last'.raised]_vars

\* C5 amended: timers are one-shot.  An endTimer(id) made while the logger is
\* enabled with includePerformance on removes id from the timer map.  An
\* endTimer(id) for an id that is not in the timer map raises nothing, leaves
\* the timer map unchanged and appends no completion entry: it appends one
\* warn-level 'Timer not found' entry when the logger is enabled,
\* includePerformance is on, id is not empty and the level is warn, info,
\* debug or trace, and appends nothing otherwise.
C5_OneShot ==
    [][\A id \in TimerIds \cup {EmptyId} :
          (Called("endTimer") /\ last'.arg = id) =>
              /\ ~last'.raised
              /\ (id \in DOMAIN performanceMetrics /\ config.enabled
                    /\ config.includePerformance) =>
                        id \notin DOMAIN performanceMetrics'
              /\ id \notin DOMAIN performanceMetrics =>
                    /\ performanceMetrics' = performanceMetrics
                    /\ IF /\ config.enabled
                          /\ config.includePerformance
                          /\ id # EmptyId
                          /\ config.level \in AdmitsWarn
                       THEN AppendsOne(LAMBDA e : IsTimerNotFound(e, id))
                       ELSE AppendsNothing]_vars

\* C5 witness: a timer was ended twice; the completion entry of the first
\* endTimer is followed by the 'Timer not found' entry of the second.
C5_EndedTwice ==
    /\ last.op = "endTimer"
    /\ last.arg \notin DOMAIN performanceMetrics
    /\ \E i \in 1..(Len(logBuffer) - 1) :
          /\ IsCompletion(logBuffer[i])
          /\ IsTimerNotFound(logBuffer[i + 1], last.arg)

\* C6 as stated, for a logger whose level is one of the five: after clearLogs
\* on an enabled logger the buffer holds exactly one entry, the info-level
\* logs_cleared entry; it is empty only when the logger is disabled.
C6_OneEntryWhenEnabled ==
    (last.op = "clearLogs" /\ config.level \in LevelSet) =>
        IF config.enabled
        THEN Len(logBuffer) = 1 /\ IsLogsCleared(logBuffer[1])
        ELSE logBuffer = <<>>

\* C6 amended: after clearLogs the buffer holds exactly one entry, the
\* info-level logs_cleared entry, when the logger is enabled and its level is
\* info, debug or trace; in every other configuration (disabled, or level
\* error or warn, or a level outside the five) the buffer is empty.
C6_OneEntryWhenInfoAdmitted ==
    last.op = "clearLogs" =>
        IF config.enabled /\ config.level \in AdmitsInfo
        THEN Len(logBuffer) = 1 /\ IsLogsCleared(logBuffer[1])
        ELSE logBuffer = <<>>

\* C6 witness: clearLogs ran on an enabled logger and left the one
\* logs_cleared entry.
C6_Cleared ==
    /\ last.op = "clearLogs"
    /\ config.enabled
    /\ Len(logBuffer) = 1
    /\ IsLogsCleared(logBuffer[1])

RECURSIVE SameValue(_, _)
\* two values have the same field values: arrays element by element, objects
\* property by property (a missing property reads as undefined)
SameValue(a, b) ==
    IF a.t = "array" /\ b.t = "array"
    THEN /\ Len(a.a) = Len(b.a)
         /\ \A i \in 1..Len(a.a) : SameValue(a.a[i], b.a[i])
    ELSE IF a.t = "object" /\ b.t = "object"
    THEN \A k \in Keys(a) \cup Keys(b) : SameValue(Get(a, k), Get(b, k))
    ELSE a = b

RECURSIVE JSONSafe(_)
\* a value built from finite numbers, strings, booleans, null and objects of
\* these (a property may also be undefined): no NaN, no cycle
JSONSafe(v) ==
    CASE v.t = "NaN" -> FALSE
      [] v.t = "cyclic" -> FALSE
      [] v.t = "object" -> \A k \in DOMAIN v.f : JSONSafe(v.f[k])
      [] v.t = "array" ->
            \A i \in 1..Len(v.a) : v.a[i].t # "undefined" /\ JSONSafe(v.a[i])
      [] OTHER -> TRUE

\* what getLogs returns, as an array of entry objects
LogsArray == Arr([i \in 1..Len(getLogs(Logger)) |-> EntryObj(getLogs(Logger)[i])])

\* C7 as stated: whenever exportLogs is called it returns a document that
\* parses back to the entries getLogs returns, same values, same order.
C7_RoundTrip ==
    last.op = "exportLogs" =>
        ~last.raised /\ SameValue(JSONparse(last.ret), LogsArray)

\* C7 amended: the round trip holds when the data and context of every
\* buffered entry are JSON values (finite numbers, strings, booleans, null,
\* objects of these; a property that is undefined is left out of the export
\* and reads back as undefined).  A NaN is exported as null, and exportLogs
\* raises when a buffered entry contains a cycle.
C7_RoundTripOfJSONValues ==
    last.op = "exportLogs" =>
        /\ JSONSafe(LogsArray) =>
              ~last.raised /\ SameValue(JSONparse(last.ret), LogsArray)
        /\ HasCycle(LogsArray) => last.raised

\* C7 witness: a full buffer, one of whose entries carries a context, was
\* exported.
C7_Exported ==
    /\ last.op = "exportLogs"
    /\ ~last.raised
    /\ Len(logBuffer) = maxBufferSize
    /\ JSONSafe(LogsArray)
    /\ \E i \in 1..Len(logBuffer) : Truthy(logBuffer[i].context)
    /\ \E i \in 1..Len(logBuffer) : logBuffer[i] # logBuffer[1]

\* a === b
Identical(a, b) == a = b /\ a.t # "NaN"

\* C8: in the payload logged by trackStateChange for two state objects, key k
\* is in `changes` iff k is a key of the old or the new state and old[k] is
\* not identical (===) to new[k], and then changes[k] = {from: old[k],
\* to: new[k]}.
C8_ShallowDiff ==
    \A i \in 1..Len(logBuffer) :
        LET e == logBuffer[i]
            oldState == Get(e.data, "oldState")
            newState == Get(e.data, "newState")
            changes == Get(e.data, "changes")
        IN  (/\ e.component = "state"
             /\ e.action = "change"
             /\ oldState.t = "object"
             /\ newState.t = "object") =>
                \A k \in DiffKeys \cup Keys(changes) :
                    /\ k \in Keys(changes) <=>
                          /\ k \in Keys(oldState) \cup Keys(newState)
                          /\ ~Identical(Get(oldState, k), Get(newState, k))
                    /\ k \in Keys(changes) =>
                          Get(changes, k) = Obj([from |-> Get(oldState, k),
                                                 to |-> Get(newState, k)])

\* C8 witness: the logged diff of {a:1, b:2} -> {a:1, b:1, c:2} is exactly
\* {b: {from: 2, to: 1}, c: {from: undefined, to: 2}}.
C8_Example ==
    \E i \in 1..Len(logBuffer) :
        /\ logBuffer[i].action = "change"
        /\ Get(logBuffer[i].data, "oldState") = Obj([a |-> Num(1), b |-> Num(2)])
        /\ Get(logBuffer[i].data, "newState")
              = Obj([a |-> Num(1), b |-> Num(1), c |-> Num(2)])
        /\ Get(logBuffer[i].data, "changes")
              = Obj([b |-> Obj([from |-> Num(2), to |-> Num(1)]),
                     c |-> Obj([from |-> Undef, to |-> Num(2)])])

PublicCalls ==
    Methods \cup {"startTimer", "endTimer", "trackError", "trackAPIRequest",
                  "trackAPIResponse", "trackStateChange", "updateConfig",
                  "clearLogs"}

\* C9: no public logger call raises an exception to its caller.
C9_NeverRaises == last.op \in PublicCalls => ~last.raised

\* C10 as stated, for a logger that the update leaves enabled with one of the
\* five levels: every updateConfig call appends exactly one info-level
\* config_update entry recording the configuration before and after.
C10_AlwaysLogged ==
    [][(Called("updateConfig") /\ config'.enabled
          /\ config'.level \in LevelSet) =>
          AppendsOne(LAMBDA e : IsConfigUpdate(e, config, config'))]_vars

\* C10 amended: an updateConfig call appends exactly one info-level
\* config_update entry, recording the configuration before and after, when
\* the configuration after the update is enabled with level info, debug or
\* trace; otherwise it appends nothing.
C10_LoggedWhenInfoAdmitted ==
    [][Called("updateConfig") =>
          IF config'.enabled /\ config'.level \in AdmitsInfo
          THEN AppendsOne(LAMBDA e : IsConfigUpdate(e, config, config'))
          ELSE AppendsNothing]_vars

\* C10 witness: an updateConfig that changed the configuration was logged.
C10_UpdateLogged ==
    /\ last.op = "updateConfig"
    /\ Len(logBuffer) > 0
    /\ LET e == logBuffer[Len(logBuffer)]
       IN  /\ e.action = "config_update"
           /\ Get(e.data, "newConfig") = ConfigObj(config)
           /\ Get(e.data, "oldConfig") # ConfigObj(config)

(***************************************************************************)
(* Construction on its own: `new DebugLogger(config)` for every combination *)
(* of constructor argument, runtime, environment variables and local        *)
(* storage, followed by at most one updateConfig                            *)
(***************************************************************************)
\* the partial configuration given to the constructor
ConstructorConfigs ==
    {NoProps, [enabled |-> FALSE], [level |-> "error"], [level |-> "trace"]}
\* what isNodeEnv() and isBrowserEnv() answer: Node, a browser, or a runtime
\* that has both `process` and `window`
Runtimes ==
    {[node |-> TRUE, browser |-> FALSE], [node |-> FALSE, browser |-> TRUE],
     [node |-> TRUE, browser |-> TRUE]}
\* process.env.DIANOIA_DEBUG, process.env.DIANOIA_DEBUG_LEVEL
EnvDebugValues == {Undef, Str("false"), Str("true")}
EnvLevelValues == {Undef, Str("error"), Str("trace"), Str("verbose")}
\* localStorage.getItem('dianoia_debug_enabled' / 'dianoia_debug_level')
StoredEnabledValues == {Null, Str("false"), Str("true"), Str("1")}
StoredLevelValues == {Null, Str("warn"), Str("trace"), Str("verbose")}

\* everything the constructor reads
ConstructorInputs ==
    [cfg : ConstructorConfigs, runtime : Runtimes,
     envDebug : EnvDebugValues, envLevel : EnvLevelValues,
     lsEnabled : StoredEnabledValues, lsLevel : StoredLevelValues]

\* new DebugLogger(inp.cfg) in the surroundings inp: process.env is read only
\* under Node, window.localStorage only in a browser
construct(inp) ==
    constructor(inp.cfg,
                IF inp.runtime.node THEN inp.envDebug ELSE Undef,
                IF inp.runtime.node THEN inp.envLevel ELSE Undef,
                inp.runtime.browser, inp.lsEnabled, inp.lsLevel,
                IF inp.runtime.browser THEN "browser" ELSE "node")

InitConstruct ==
    \E inp \in ConstructorInputs :
        LET L == construct(inp)
        IN  /\ config = L.config
            /\ logBuffer = L.logBuffer
            /\ performanceMetrics = L.performanceMetrics
            /\ accepted = L.accepted
            /\ last = Call("constructor", inp, Undef) @@ [raised |-> L.raised]
            /\ calls = 0
            /\ IdleApp

\* the first call on the new logger is an updateConfig
UpdateConfigFirst ==
    /\ calls = 0
    /\ \E newConfig \in ConfigUpdates :
           Commit(updateConfig(Logger, newConfig),
                  Call("updateConfig", newConfig, Undef))

SpecConstruct == InitConstruct /\ [][UpdateConfigFirst]_vars

(***************************************************************************)
(* The backend's request-logging middleware (backend/src/index.ts): every   *)
(* request passes through it before any route; the response is logged by    *)
(* the res.send it installs                                                 *)
(***************************************************************************)
\* DIANOIA_DEBUG / DIANOIA_DEBUG_LEVEL of the server process
BackendEnvironments == Environments \cup {<<Undef, Str("error")>>}
\* the context the middleware passes: express.json() has not run yet, so
\* req.body is undefined
MiddlewareContext ==
    Obj([userAgent |-> Str("ua"), ip |-> Str("127.0.0.1"),
         sessionId |-> Undef])

InitMiddleware ==
    \E env \in BackendEnvironments :
        LET L == constructor(NoProps, env[1], env[2], FALSE, Null, Null, "node")
        IN  /\ config = L.config
            /\ logBuffer = L.logBuffer
            /\ performanceMetrics = L.performanceMetrics
            /\ accepted = L.accepted
            /\ last = Call("constructor", Undef, Undef) @@ [raised |-> L.raised]
            /\ calls = 0
            /\ IdleApp

\* the sequence without its i-th element
RemoveAt(seq, i) ==
    [j \in 1..(Len(seq) - 1) |-> IF j < i THEN seq[j] ELSE seq[j + 1]]

\* (req.method, req.url) of the requests the server receives
Requests == {<<"POST", "/api/generate">>, <<"GET", "/health">>}

\* a request arrives: the middleware logs it and installs res.send
Middleware ==
    /\ calls < MaxCalls
    /\ \E rq \in Requests, suffix \in Suffixes :
          LET r == trackAPIRequest(Logger, rq[1], rq[2], Undef,
                                   MiddlewareContext, suffix)
          IN  /\ CommitLogger(r.L, Call("middleware", Undef, r.ret))
              /\ openRequests' = Append(openRequests, [requestId |-> r.ret])
              /\ UNCHANGED <<sessionKeys, pendingLLM, processEnv, frontendVars>>

\* a handler answers the i-th open request with res.json / res.send
ResSend ==
    /\ calls < MaxCalls
    /\ \E i \in 1..Len(openRequests) :
          /\ CommitLogger(trackAPIResponse(Logger, openRequests[i].requestId,
                                           Num(200), Str("body"), Undef,
                                           Undef),
                          Call("res.send", i, Undef))
          /\ openRequests' = RemoveAt(openRequests, i)
          /\ UNCHANGED <<sessionKeys, pendingLLM, processEnv, frontendVars>>

\* the i-th open request is answered without res.send: the cors middleware
\* ends a preflight itself, and no route matches
ResEnd ==
    /\ calls < MaxCalls
    /\ \E i \in 1..Len(openRequests) :
          /\ CommitLogger(Logger, Call("res.end", i, Undef))
          /\ openRequests' = RemoveAt(openRequests, i)
          /\ UNCHANGED <<sessionKeys, pendingLLM, processEnv, frontendVars>>

NextMiddleware ==
    \/ Middleware
    \/ ResSend
    \/ ResEnd

SpecMiddleware == InitMiddleware /\ [][NextMiddleware]_vars

(***************************************************************************)
(* The frontend logger (frontend utils/debug.ts), a logger record           *)
(* [logs, config, timers], and the debug panel that drives it               *)
(***************************************************************************)
feMethods == {"info", "warn", "error", "trace"}

\* private log(): no test other than `enabled`
feLog(F, level, category, action, message, data) ==
    IF ~F.config.enabled THEN F
    ELSE LET logEntry == [timestamp |-> Str("now"), level |-> level,
                          category |-> category, action |-> action,
                          message |-> message, data |-> data]
             pushed == Append(F.logs, logEntry)
         IN  [F EXCEPT !.logs =
                 IF Len(pushed) > F.config.maxLogs
                 THEN SubSeq(pushed, Len(pushed) - F.config.maxLogs + 1,
                             Len(pushed))
                 ELSE pushed]

\* trackError(error, category, action); error.message of null or undefined
\* raises
feTrackErrorThrows(error) == error.t \in {"undefined", "null"}
feTrackError(F, error, category, action) ==
    feLog(F, "error", category, action, Get(error, "message"),
          Obj([stack |-> Get(error, "stack"), name |-> Get(error, "name")]))

feUpdateConfig(F, newConfig) ==
    [F EXCEPT !.config = MergeConfig(@, newConfig)]

feClearLogs(F) == [F EXCEPT !.logs = <<>>]

\* startTimer(name) / endTimer(name): the timers map, as the set of its keys
feStartTimer(F, name) == [F EXCEPT !.timers = @ \cup {name}]
feEndTimer(F, name) == [F EXCEPT !.timers = @ \ {name}]

\* the shared logger is not part of the browser bundle: its fields stay as
\* declared
SharedLoggerUnused ==
    /\ config = DefaultConfig
    /\ logBuffer = <<>>
    /\ performanceMetrics = [i \in {} |-> Undef]
    /\ accepted = <<>>

\* the variables after a call that took the frontend logger to F
CommitFrontendLogger(F, call) ==
    /\ calls' = calls + 1
    /\ last' = call @@ [raised |-> FALSE]
    /\ feLogger' = F
    /\ UNCHANGED <<config, logBuffer, performanceMetrics, accepted,
                   backendVars, store, storage, generation, page>>

InitPanel ==
    /\ SharedLoggerUnused
    /\ IdleApp
    /\ last = Call("load", Undef, Undef) @@ [raised |-> FALSE]
    /\ calls = 0

\* debug.info / warn / error / trace from anywhere in the frontend
FeLeveled ==
    /\ calls < MaxCalls
    /\ \E method \in feMethods :
           CommitFrontendLogger(
               feLog(feLogger, method, "app", "event", Str("message"), Undef),
               Call(method, Undef, Undef))

\* DebugPanel.handleLevelChange: the level chosen in the select is passed to
\* updateConfig under the key `level`
HandleLevelChange ==
    /\ calls < MaxCalls
    /\ \E level \in LevelSet :
           CommitFrontendLogger(feUpdateConfig(feLogger, [level |-> level]),
                                Call("handleLevelChange", Str(level), Undef))

\* DebugPanel.handleToggleDebug: the negation of the panel's copy of
\* `enabled`, which is refreshed once a second and may be stale or unset
HandleToggleDebug ==
    /\ calls < MaxCalls
    /\ \E newEnabled \in BOOLEAN :
           CommitFrontendLogger(
               feUpdateConfig(feLogger, [enabled |-> newEnabled]),
               Call("handleToggleDebug", Bool(newEnabled), Undef))

HandleClearLogs ==
    /\ calls < MaxCalls
    /\ CommitFrontendLogger(feClearLogs(feLogger),
                            Call("handleClearLogs", Undef, Undef))

NextPanel ==
    \/ FeLeveled
    \/ HandleLevelChange
    \/ HandleToggleDebug
    \/ HandleClearLogs

SpecPanel == InitPanel /\ [][NextPanel]_vars

(***************************************************************************)
(* The backend's LLM service (services/llmService.ts): per-session API      *)
(* configurations and generateArgument, which is split at its one await     *)
(***************************************************************************)
SessionIds == {"s1", "s2"}
\* the sessionId argument of generateArgument: a session, or none
SessionArgs == {Str(x) : x \in SessionIds} \cup {Undef}
\* the LLMConfig objects handleSetupAPIKey builds
LLMConfigs ==
    {[provider |-> "openai", apiKey |-> "key-a", model |-> Undef],
     [provider |-> "openrouter", apiKey |-> "key-b", model |-> Undef]}
\* `null` where an LLMConfig is expected
NoConfig == [provider |-> "none", apiKey |-> "", model |-> Undef]
\* the action argument: the three relations and one that is none of them
ActionArgs == {"supports", "explains"}
\* process.env.OPENAI_API_KEY
EnvKeys == {Undef, Str("key-env")}

setSessionKey(L, K, sessionId, cfg) ==
    LET L1 == leveled(L, "info", "llm_service", "session_key_set",
                      Msg("Setting session API key", Undef),
                      Obj([sessionId |-> Str(sessionId),
                           provider |-> Str(cfg.provider),
                           model |-> cfg.model,
                           hasApiKey |-> Bool(cfg.apiKey # "")]), Undef)
        K1 == [k \in DOMAIN K \cup {sessionId} |->
                  IF k = sessionId THEN cfg ELSE K[k]]
        L2 == leveled(L1, "trace", "llm_service", "session_keys_count",
                      Msg("Current session keys count", Undef),
                      Obj([count |-> Num(Cardinality(DOMAIN K1))]), Undef)
    IN  [L |-> L2, K |-> K1]

\* variant of getSessionKey: a session without a configuration is given the
\* configuration of some other session
getSessionKey_anySession(L, K, sessionId) ==
    LET cfg == IF sessionId \in DOMAIN K THEN K[sessionId]
               ELSE IF DOMAIN K # {} THEN K[CHOOSE k \in DOMAIN K : TRUE]
               ELSE NoConfig
        L1 == leveled(L, "trace", "llm_service", "session_key_retrieved",
                      Msg("Retrieved session key", Undef),
                      Obj([sessionId |-> Str(sessionId),
                           found |-> Bool(cfg # NoConfig),
                           provider |-> IF cfg = NoConfig THEN Undef
                                        ELSE Str(cfg.provider)]), Undef)
    IN  [L |-> L1, ret |-> cfg]

getSessionKey(L, K, sessionId) ==
    LET cfg == IF sessionId \in DOMAIN K THEN K[sessionId] ELSE NoConfig
        L1 == leveled(L, "trace", "llm_service", "session_key_retrieved",
                      Msg("Retrieved session key", Undef),
                      Obj([sessionId |-> Str(sessionId),
                           found |-> Bool(cfg # NoConfig),
                           provider |-> IF cfg = NoConfig THEN Undef
                                        ELSE Str(cfg.provider)]), Undef)
    IN  [L |-> L1, ret |-> cfg]

\* getPromptTemplate: raises on an action that is none of the three
getPromptTemplate(L, action, claim) ==
    LET L1 == leveled(L, "trace", "llm_service", "prompt_generation",
                      Msg("Generating prompt template", Undef),
                      Obj([action |-> Str(action)]), Undef)
    IN  IF action \in {"supports", "refutes", "unpacks"}
        THEN [L |-> leveled(L1, "trace", "llm_service", "prompt_generated",
                            Msg("Prompt template generated", Undef),
                            Obj([action |-> Str(action)]), Undef),
              threw |-> FALSE]
        ELSE [L |-> leveled(L1, "error", "llm_service", "unknown_action",
                            Msg("Unknown action provided", Undef),
                            Obj([action |-> Str(action)]), Undef),
              threw |-> TRUE]

\* new Error(`${text}${arg}`)
ErrorOf(text, arg) ==
    Obj([name |-> Str("Error"), message |-> Msg(text, arg),
         stack |-> Str("Error at f")])

\* the timer operation of callOpenAI / callOpenRouter
callOperation(provider) ==
    IF provider = "openai" THEN "openai_api_call" ELSE "openrouter_api_call"

\* generateArgument up to the await of the provider call.  `used` is the
\* configuration whose apiKey is sent to the provider (NoConfig when the
\* call is rejected before that), `pending` what the continuation keeps.
\* The two timers have different operation names, so one suffix serves both.
generateArgumentStart(L, K, env, claim, action, sessionId, suffix) ==
    LET t == startTimer(L, "generate_argument",
                        Obj([action |-> Str(action), sessionId |-> sessionId]),
                        suffix)
        L1 == leveled(t.L, "info", "llm_service", "argument_generation_start",
                      Msg("Starting argument generation", Undef),
                      Obj([action |-> Str(action), sessionId |-> sessionId]),
                      Undef)
        lookup == IF Truthy(sessionId)
                  THEN getSessionKey(
                           leveled(L1, "trace", "llm_service",
                                   "session_key_lookup",
                                   Msg("Looking up session key", Undef),
                                   Obj([sessionId |-> sessionId]), Undef),
                           K, sessionId.s)
                  ELSE [L |-> L1, ret |-> NoConfig]
        fallback == lookup.ret = NoConfig /\ Truthy(env.OPENAI_API_KEY)
        L2 == IF fallback
              THEN leveled(lookup.L, "info", "llm_service", "env_key_fallback",
                           Msg("Using environment API key as fallback", Undef),
                           Undef, Undef)
              ELSE lookup.L
        cfg == IF fallback
               THEN [provider |-> "openai", apiKey |-> env.OPENAI_API_KEY.s,
                     model |-> Str("text-davinci-003")]
               ELSE lookup.ret
        \* catch: trackError, throw new Error; finally: endTimer
        rejected(Lx, error) ==
            [L |-> endTimer(trackError(Lx, error, "llm_service",
                                       "argument_generation_error",
                                       Obj([action |-> Str(action),
                                            sessionId |-> sessionId,
                                            claim |-> claim])),
                            t.ret, Undef),
             used |-> NoConfig, threw |-> TRUE]
    IN  IF cfg = NoConfig
        THEN rejected(leveled(L2, "error", "llm_service", "no_api_key",
                              Msg("No API key configured", Undef),
                              Obj([sessionId |-> sessionId,
                                   hasEnvKey |-> Bool(Truthy(env.OPENAI_API_KEY))]),
                              Undef),
                      ErrorOf("No API key configured", Undef))
        ELSE LET L3 == leveled(L2, "info", "llm_service", "config_resolved",
                               Msg("API configuration resolved", Undef),
                               Obj([provider |-> Str(cfg.provider),
                                    model |-> cfg.model,
                                    sessionId |-> sessionId]), Undef)
                 pt == getPromptTemplate(L3, action, claim)
                 t2 == startTimer(pt.L, callOperation(cfg.provider),
                                  Obj([model |-> cfg.model]), suffix)
                 L4 == leveled(t2.L, "info", "llm_service", "call_start",
                               Msg("Making API call", Str(cfg.provider)),
                               Obj([model |-> cfg.model]), Undef)
             IN  IF pt.threw
                 THEN rejected(pt.L, ErrorOf("Unknown action: ", Str(action)))
                 ELSE [L |-> L4, used |-> cfg, threw |-> FALSE,
                       pending |-> [timerId |-> t.ret, callTimerId |-> t2.ret,
                                    config |-> cfg, action |-> action]]

\* generateArgument after the await: the provider answered (ok) or failed
generateArgumentSettle(L, p, ok) ==
    IF ok
    THEN LET L1 == leveled(L, "info", "llm_service", "call_success",
                           Msg("API call successful", Str(p.config.provider)),
                           Obj([model |-> p.config.model]), Undef)
             L2 == endTimer(L1, p.callTimerId, Undef)
             L3 == leveled(L2, "info", "llm_service",
                           "argument_generation_success",
                           Msg("Argument generation completed", Undef),
                           Obj([action |-> Str(p.action),
                                provider |-> Str(p.config.provider)]), Undef)
         IN  endTimer(L3, p.timerId, Undef)
    ELSE LET L1 == trackError(L, SomeError, "llm_service", "call_error",
                              Obj([model |-> p.config.model]))
             L2 == endTimer(L1, p.callTimerId, Undef)
             L3 == trackError(L2, SomeError, "llm_service",
                              "argument_generation_error",
                              Obj([action |-> Str(p.action)]))
         IN  endTimer(L3, p.timerId, Undef)

InitSessions ==
    \E key \in EnvKeys :
        LET L == constructor(NoProps, Undef, Undef, FALSE, Null, Null, "node")
        IN  /\ config = L.config
            /\ logBuffer = L.logBuffer
            /\ performanceMetrics = L.performanceMetrics
            /\ accepted = L.accepted
            /\ last = Call("constructor", Undef, Undef) @@ [raised |-> L.raised]
            /\ calls = 0
            /\ openRequests = <<>>
            /\ sessionKeys = NoKeys
            /\ pendingLLM = <<>>
            /\ processEnv = [OPENAI_API_KEY |-> key]
            /\ store = StoreInit
            /\ storage = NoStorage
            /\ feLogger = [logs |-> <<>>, config |-> feDefaultConfig, timers |-> {}]
            /\ generation = <<>>
            /\ page = NoPage

SetSessionKey ==
    /\ calls < MaxCalls
    /\ \E sessionId \in SessionIds, cfg \in LLMConfigs :
          LET r == setSessionKey(Logger, sessionKeys, sessionId, cfg)
          IN  /\ CommitLogger(r.L, Call("setSessionKey", Str(sessionId), cfg))
              /\ sessionKeys' = r.K
              /\ UNCHANGED <<openRequests, pendingLLM, processEnv,
                             frontendVars>>

GenerateArgumentStart ==
    /\ calls < MaxCalls
    /\ \E sessionId \in SessionArgs, action \in ActionArgs,
          suffix \in Suffixes :
          LET r == generateArgumentStart(Logger, sessionKeys, processEnv,
                                         Str("claim"), action, sessionId,
                                         suffix)
          IN  /\ CommitLogger([r.L EXCEPT !.raised = r.threw],
                              Call("generateArgument", sessionId, r.used))
              /\ pendingLLM' = IF r.threw THEN pendingLLM
                               ELSE Append(pendingLLM, r.pending)
              /\ UNCHANGED <<openRequests, sessionKeys, processEnv,
                             frontendVars>>

GenerateArgumentSettle ==
    /\ calls < MaxCalls
    /\ \E i \in 1..Len(pendingLLM), ok \in BOOLEAN :
          /\ CommitLogger([generateArgumentSettle(Logger, pendingLLM[i], ok)
                              EXCEPT !.raised = ~ok],
                          Call("settle", pendingLLM[i].config, Bool(ok)))
          /\ pendingLLM' = RemoveAt(pendingLLM, i)
          /\ UNCHANGED <<openRequests, sessionKeys, processEnv, frontendVars>>

NextSessions ==
    \/ SetSessionKey
    \/ GenerateArgumentStart
    \/ GenerateArgumentSettle

SpecSessions == InitSessions /\ [][NextSessions]_vars

(***************************************************************************)
(* The frontend store (store/useStore.ts).  The store operators work on a   *)
(* record X = [store, storage, feLogger, raised] and return it updated;     *)
(* `throws` tells whether localStorage.setItem raises in this call          *)
(***************************************************************************)
NodeIds == {"n1", "n2"}
\* an ArgumentNode
Node(id, label, author, x, y) ==
    Obj([id |-> Str(id), type |-> Str("argumentNode"),
         position |-> Obj([x |-> Num(x), y |-> Num(y)]),
         data |-> Obj([label |-> Str(label), author |-> Str(author)])])
\* an ArgumentEdge
Edge(id, source, target, relation) ==
    Obj([id |-> Str(id), source |-> source, target |-> target,
         type |-> Str("argumentEdge"),
         data |-> Obj([relation |-> Str(relation)]),
         animated |-> Bool(TRUE)])
\* the node App.handleAddInitialClaim creates
InitialClaim(id) ==
    Node(id, "Click to edit your initial claim...", "user", 400, 200)
\* what a failing localStorage.setItem raises
QuotaError ==
    Obj([name |-> Str("QuotaExceededError"),
         message |-> Str("The quota has been exceeded."),
         stack |-> Str("QuotaExceededError at setItem")])
\* what JSON.stringify raises on a cycle
CycleError ==
    Obj([name |-> Str("TypeError"),
         message |-> Str("Converting circular structure to JSON"),
         stack |-> Str("TypeError at stringify")])

\* the object { nodes, edges } that is written to 'dianoia-graph'
Graph(nodes, edges) == Obj([nodes |-> Arr(nodes), edges |-> Arr(edges)])

Frontend ==
    [store |-> store, storage |-> storage, feLogger |-> feLogger,
     raised |-> FALSE]

\* variant of persist without the try / catch
persist_uncaught(X, nodes, edges, throws, level, action, errorAction) ==
    LET r == JSONstringify(Graph(nodes, edges))
    IN  IF r.threw \/ throws THEN [X EXCEPT !.raised = TRUE]
        ELSE [X EXCEPT !.storage.graph = r.text,
                       !.feLogger = feLog(@, level, "store", action,
                                          Str("Saved to localStorage"), Undef)]

\* try { localStorage.setItem('dianoia-graph', JSON.stringify({nodes, edges}));
\*       debug.<level>(...) } catch (error) { debug.trackError(error, ...) }
persist(X, nodes, edges, throws, level, action, errorAction) ==
    LET r == JSONstringify(Graph(nodes, edges))
        error == IF r.threw THEN CycleError ELSE QuotaError
    IN  IF r.threw \/ throws
        THEN IF feTrackErrorThrows(error) THEN [X EXCEPT !.raised = TRUE]
             ELSE [X EXCEPT !.feLogger =
                      feTrackError(@, error, "store", errorAction)]
        ELSE [X EXCEPT !.storage.graph = r.text,
                       !.feLogger = feLog(@, level, "store", action,
                                          Str("Saved to localStorage"), Undef)]

\* the two info entries every store action writes: on entry, and inside set()
announce(X, action, name, data) ==
    [X EXCEPT !.feLogger =
        feLog(feLog(@, "info", "store", action, Str(name), data),
              "info", "store", "state_change", Str(name), data)]

addNode(X, node, throws) ==
    LET newNodes == Append(X.store.nodes, node)
        X1 == announce(X, "add_node", "addNode",
                       Obj([nodeId |-> Get(node, "id")]))
        X2 == persist(X1, newNodes, X.store.edges, throws, "trace",
                      "localStorage_save", "localStorage_save_error")
    IN  [X2 EXCEPT !.store.nodes = newNodes]

\* variant of addEdge: the edges written to storage are those before the
\* addition
addEdge_savesOldEdges(X, edge, throws) ==
    LET newEdges == Append(X.store.edges, edge)
        X1 == announce(X, "add_edge", "addEdge",
                       Obj([edgeId |-> Get(edge, "id")]))
        X2 == persist(X1, X.store.nodes, X.store.edges, throws, "trace",
                      "localStorage_save", "localStorage_save_error")
    IN  [X2 EXCEPT !.store.edges = newEdges]

addEdge(X, edge, throws) ==
    LET newEdges == Append(X.store.edges, edge)
        X1 == announce(X, "add_edge", "addEdge",
                       Obj([edgeId |-> Get(edge, "id")]))
        X2 == persist(X1, X.store.nodes, newEdges, throws, "trace",
                      "localStorage_save", "localStorage_save_error")
    IN  [X2 EXCEPT !.store.edges = newEdges]

updateNodeLabel(X, nodeId, label, throws) ==
    LET newNodes ==
            [i \in 1..Len(X.store.nodes) |->
                LET node == X.store.nodes[i]
                IN  IF Get(node, "id") = Str(nodeId)
                    THEN Spread(node,
                                Obj([data |-> Spread(Get(node, "data"),
                                                     Obj([label |-> Str(label)]))]))
                    ELSE node]
        X1 == announce(X, "update_node_label", "updateNodeLabel",
                       Obj([nodeId |-> Str(nodeId), newLabel |-> Str(label)]))
        X2 == persist(X1, newNodes, X.store.edges, throws, "trace",
                      "localStorage_save", "localStorage_save_error")
    IN  [X2 EXCEPT !.store.nodes = newNodes]

setNodes(X, nodes, throws) ==
    LET X1 == announce(X, "set_nodes", "setNodes",
                       Obj([nodesCount |-> Num(Len(nodes))]))
        X2 == persist(X1, nodes, X.store.edges, throws, "trace",
                      "localStorage_save", "localStorage_save_error")
    IN  [X2 EXCEPT !.store.nodes = nodes]

setEdges(X, edges, throws) ==
    LET X1 == announce(X, "set_edges", "setEdges",
                       Obj([edgesCount |-> Num(Len(edges))]))
        X2 == persist(X1, X.store.nodes, edges, throws, "trace",
                      "localStorage_save", "localStorage_save_error")
    IN  [X2 EXCEPT !.store.edges = edges]

setSelectedNode(X, node) ==
    [announce(X, "set_selected_node", "setSelectedNode",
              Obj([nodeId |-> IF Truthy(node) THEN Get(node, "id") ELSE Null]))
        EXCEPT !.store.selectedNode = node]

setLoading(X, loading) ==
    [announce(X, "set_loading", "setLoading", Obj([loading |-> Bool(loading)]))
        EXCEPT !.store.isLoading = loading]

saveToLocalStorage(X, throws) ==
    LET X1 == [X EXCEPT !.feLogger =
                  feLog(@, "info", "store", "manual_save",
                        Str("Manually saving to localStorage"),
                        Obj([nodesCount |-> Num(Len(X.store.nodes)),
                             edgesCount |-> Num(Len(X.store.edges))]))]
    IN  persist(X1, X.store.nodes, X.store.edges, throws, "info",
                "manual_save_success", "manual_save_error")

\* `x || []` for the nodes / edges read back
OrEmpty(v) == IF v.t = "array" THEN v.a ELSE <<>>

loadFromLocalStorage(X) ==
    LET X1 == [X EXCEPT !.feLogger =
                  feLog(@, "info", "store", "load_from_storage",
                        Str("Loading state from localStorage"), Undef)]
        saved == X.storage.graph
    IN  IF saved # NoItem
        THEN LET parsed == JSONparse(saved)
                 newNodes == OrEmpty(Get(parsed, "nodes"))
                 newEdges == OrEmpty(Get(parsed, "edges"))
             IN  [X1 EXCEPT !.feLogger =
                        feLog(@, "info", "store", "load_success",
                              Str("Successfully loaded from localStorage"),
                              Obj([nodesCount |-> Num(Len(newNodes)),
                                   edgesCount |-> Num(Len(newEdges))])),
                     !.store.nodes = newNodes,
                     !.store.edges = newEdges]
        ELSE [X1 EXCEPT !.feLogger =
                 feLog(@, "info", "store", "load_no_data",
                       Str("No saved data found in localStorage"), Undef)]

\* the variables after a frontend call that took the frontend to X
CommitFrontend(X, call) ==
    /\ calls' = calls + 1
    /\ last' = call @@ [raised |-> X.raised]
    /\ store' = X.store
    /\ storage' = X.storage
    /\ feLogger' = X.feLogger
    /\ UNCHANGED <<config, logBuffer, performanceMetrics, accepted,
                   backendVars>>

\* the store module has been loaded: its last statement logs store_created
InitStore ==
    /\ SharedLoggerUnused
    /\ openRequests = <<>>
    /\ sessionKeys = NoKeys
    /\ pendingLLM = <<>>
    /\ processEnv = [OPENAI_API_KEY |-> Undef]
    /\ store = StoreInit
    /\ storage = NoStorage
    /\ feLogger = feLog([logs |-> <<>>, config |-> feDefaultConfig,
                         timers |-> {}],
                        "info", "store", "store_created",
                        Str("Zustand store created and initialized"), Undef)
    /\ generation = <<>>
    /\ page = NoPage
    /\ last = Call("load", Undef, Undef) @@ [raised |-> FALSE]
    /\ calls = 0

\* the edge between the first two nodes of the store
SomeEdge(S) ==
    Edge("e1", Get(S.nodes[1], "id"),
         IF Len(S.nodes) > 1 THEN Get(S.nodes[2], "id")
         ELSE Get(S.nodes[1], "id"), "supports")

AddNode ==
    /\ calls < MaxCalls
    /\ \E id \in NodeIds, throws \in BOOLEAN :
          /\ CommitFrontend(addNode(Frontend, InitialClaim(id), throws),
                            Call("addNode",
                                 [node |-> InitialClaim(id), throws |-> throws],
                                 Undef))
          /\ UNCHANGED <<generation, page>>

AddEdge ==
    /\ calls < MaxCalls
    /\ Len(store.nodes) > 0
    /\ \E throws \in BOOLEAN :
          /\ CommitFrontend(addEdge(Frontend, SomeEdge(store), throws),
                            Call("addEdge",
                                 [edge |-> SomeEdge(store), throws |-> throws],
                                 Undef))
          /\ UNCHANGED <<generation, page>>

\* ArgumentNode.handleEditSubmit
UpdateNodeLabel ==
    /\ calls < MaxCalls
    /\ \E nodeId \in NodeIds, throws \in BOOLEAN :
          /\ CommitFrontend(updateNodeLabel(Frontend, nodeId, "edited", throws),
                            Call("updateNodeLabel",
                                 [nodeId |-> nodeId, label |-> "edited",
                                  throws |-> throws], Undef))
          /\ UNCHANGED <<generation, page>>

\* the arrays setNodes is given: nothing, or the nodes with the first one
\* dragged (ArgumentCanvas.onNodesChange)
NodeArrays(S) ==
    {<<>>}
      \cup {[i \in 1..Len(S.nodes) |->
                IF i = 1
                THEN Spread(S.nodes[i],
                            Obj([position |-> Obj([x |-> Num(10), y |-> Num(20)])]))
                ELSE S.nodes[i]]}

SetNodes ==
    /\ calls < MaxCalls
    /\ \E nodes \in NodeArrays(store), throws \in BOOLEAN :
          /\ CommitFrontend(setNodes(Frontend, nodes, throws),
                            Call("setNodes",
                                 [nodes |-> nodes, throws |-> throws], Undef))
          /\ UNCHANGED <<generation, page>>

SetEdges ==
    /\ calls < MaxCalls
    /\ \E edges \in {<<>>}, throws \in BOOLEAN :
          /\ CommitFrontend(setEdges(Frontend, edges, throws),
                            Call("setEdges",
                                 [edges |-> edges, throws |-> throws], Undef))
          /\ UNCHANGED <<generation, page>>

\* ArgumentNode.handleClick: the clicked node, its position replaced by 0,0
SetSelectedNode ==
    /\ calls < MaxCalls
    /\ \E i \in 1..Len(store.nodes) :
          LET node == Spread(store.nodes[i],
                             Obj([position |-> Obj([x |-> Num(0), y |-> Num(0)])]))
          IN  /\ CommitFrontend(setSelectedNode(Frontend, node),
                                Call("setSelectedNode", Undef, Undef))
              /\ UNCHANGED <<generation, page>>

SetLoading ==
    /\ calls < MaxCalls
    /\ CommitFrontend(setLoading(Frontend, ~store.isLoading),
                      Call("setLoading", Undef, Undef))
    /\ UNCHANGED <<generation, page>>

SaveToLocalStorage ==
    /\ calls < MaxCalls
    /\ \E throws \in BOOLEAN :
          /\ CommitFrontend(saveToLocalStorage(Frontend, throws),
                            Call("saveToLocalStorage", [throws |-> throws],
                                 Undef))
          /\ UNCHANGED <<generation, page>>

LoadFromLocalStorage ==
    /\ calls < MaxCalls
    /\ CommitFrontend(loadFromLocalStorage(Frontend),
                      Call("loadFromLocalStorage", Undef, Undef))
    /\ UNCHANGED <<generation, page>>

NextStore ==
    \/ AddNode
    \/ AddEdge
    \/ UpdateNodeLabel
    \/ SetNodes
    \/ SetEdges
    \/ SetSelectedNode
    \/ SetLoading
    \/ SaveToLocalStorage
    \/ LoadFromLocalStorage
    \/ HandleToggleDebug

SpecStore == InitStore /\ [][NextStore]_vars

(***************************************************************************)
(* Generating an argument: InteractionPanel.handleAction, the frontend's    *)
(* generateAndAddNode and the backend's handleGenerate.  handleAction is    *)
(* split at its await: the click, and the arrival of the answer             *)
(***************************************************************************)
\* the relations offered by the panel's buttons
Relations == {"supports", "refutes"}

\* variant of generateResponse: the edge's target is not the new node's id
generateResponse_danglingTarget(sourceNode, action, newClaimText, nodeId, edgeId) ==
    LET position == Get(sourceNode, "position")
        newNode == Obj([id |-> Str(nodeId), type |-> Str("argumentNode"),
                        position |-> Obj([x |-> Get(position, "x"),
                                          y |-> Num(Get(position, "y").n + 150)]),
                        data |-> Obj([label |-> Str(newClaimText),
                                      author |-> Str("llm")])])
        newEdge == Edge(edgeId, Get(sourceNode, "id"), Str(edgeId), action)
    IN  Obj([newNode |-> newNode, newEdge |-> newEdge])

\* the body handleGenerate answers with: a node authored by the LLM below the
\* source node, and the edge from the source node to it
generateResponse(sourceNode, action, newClaimText, nodeId, edgeId) ==
    LET position == Get(sourceNode, "position")
        newNode == Obj([id |-> Str(nodeId), type |-> Str("argumentNode"),
                        position |-> Obj([x |-> Get(position, "x"),
                                          y |-> Num(Get(position, "y").n + 150)]),
                        data |-> Obj([label |-> Str(newClaimText),
                                      author |-> Str("llm")])])
        newEdge == Edge(edgeId, Get(sourceNode, "id"), Get(newNode, "id"),
                        action)
    IN  Obj([newNode |-> newNode, newEdge |-> newEdge])

\* handleAction up to the await; clicked is the node the panel was rendered
\* for.  Nothing happens while a generation is loading.
handleActionStart(X, clicked, action) ==
    IF X.store.isLoading THEN X
    ELSE LET X1 == setLoading(X, TRUE)
         IN  [X1 EXCEPT !.feLogger =
                 feLog(feLog(feStartTimer(@, "generate_and_add_node"),
                             "info", "api_service", "generate_request_start",
                             Str("Starting generate request"),
                             Obj([action |-> Str(action),
                                  sourceNodeId |-> Get(clicked, "id")])),
                       "info", "api", "request", Str("POST /api/generate"),
                       Obj([action |-> Str(action)]))]

\* variant of handleActionResolve: addEdge is called before addNode
handleActionResolve_edgeFirst(X, ok, body, throwsNode, throwsEdge) ==
    IF ok
    THEN LET data == JSONparse(body)
             X1 == [X EXCEPT !.feLogger =
                       feEndTimer(
                           feLog(feLog(@, "info", "api", "response",
                                       Str("POST /api/generate - 200"), Undef),
                                 "info", "api_service",
                                 "generate_request_success",
                                 Str("Generate request completed successfully"),
                                 Obj([newNodeId |->
                                         Get(Get(data, "newNode"), "id")])),
                           "generate_and_add_node")]
             X2 == addEdge(X1, Get(data, "newEdge"), throwsEdge)
             X3 == addNode(X2, Get(data, "newNode"), throwsNode)
         IN  setLoading(X3, FALSE)
    ELSE LET X1 == [X EXCEPT !.feLogger =
                       feEndTimer(
                           feTrackError(
                               feLog(@, "error", "api_service",
                                     "generate_request_error",
                                     Str("Generate request failed"), Undef),
                               SomeError, "api_service",
                               "generate_request_failed"),
                           "generate_and_add_node")]
         IN  setLoading(X1, FALSE)

\* variant of handleActionResolve: a failed request leaves the loading flag
\* as it is
handleActionResolve_keepsLoading(X, ok, body, throwsNode, throwsEdge) ==
    IF ok
    THEN LET data == JSONparse(body)
             X1 == [X EXCEPT !.feLogger =
                       feEndTimer(
                           feLog(feLog(@, "info", "api", "response",
                                       Str("POST /api/generate - 200"), Undef),
                                 "info", "api_service",
                                 "generate_request_success",
                                 Str("Generate request completed successfully"),
                                 Obj([newNodeId |->
                                         Get(Get(data, "newNode"), "id")])),
                           "generate_and_add_node")]
             X2 == addNode(X1, Get(data, "newNode"), throwsNode)
             X3 == addEdge(X2, Get(data, "newEdge"), throwsEdge)
         IN  setLoading(X3, FALSE)
    ELSE LET X1 == [X EXCEPT !.feLogger =
                       feEndTimer(
                           feTrackError(
                               feLog(@, "error", "api_service",
                                     "generate_request_error",
                                     Str("Generate request failed"), Undef),
                               SomeError, "api_service",
                               "generate_request_failed"),
                           "generate_and_add_node")]
         IN  X1

\* handleAction after the await: the backend answered 200 with `body`, or the
\* request failed
handleActionResolve(X, ok, body, throwsNode, throwsEdge) ==
    IF ok
    THEN LET data == JSONparse(body)
             X1 == [X EXCEPT !.feLogger =
                       feEndTimer(
                           feLog(feLog(@, "info", "api", "response",
                                       Str("POST /api/generate - 200"), Undef),
                                 "info", "api_service",
                                 "generate_request_success",
                                 Str("Generate request completed successfully"),
                                 Obj([newNodeId |->
                                         Get(Get(data, "newNode"), "id")])),
                           "generate_and_add_node")]
             X2 == addNode(X1, Get(data, "newNode"), throwsNode)
             X3 == addEdge(X2, Get(data, "newEdge"), throwsEdge)
         IN  setLoading(X3, FALSE)
    ELSE LET X1 == [X EXCEPT !.feLogger =
                       feEndTimer(
                           feTrackError(
                               feLog(@, "error", "api_service",
                                     "generate_request_error",
                                     Str("Generate request failed"), Undef),
                               SomeError, "api_service",
                               "generate_request_failed"),
                           "generate_and_add_node")]
         IN  setLoading(X1, FALSE)

\* ArgumentCanvas.onNodesChange: position changes are applied to the node
\* of that id, every other kind of change is ignored; then setNodes
onNodesChange(X, changes, throws) ==
    LET updatedNodes ==
            [i \in 1..Len(X.store.nodes) |->
                LET n == X.store.nodes[i]
                    first == \A j \in 1..(i - 1) :
                                Get(X.store.nodes[j], "id") # Get(n, "id")
                IN  IF \E c \in changes :
                          c.type = "position" /\ Str(c.id) = Get(n, "id")
                    /\ first
                    THEN LET c == CHOOSE c \in changes :
                                    c.type = "position" /\ Str(c.id) = Get(n, "id")
                         IN  Spread(n, Obj([position |-> c.position]))
                    ELSE n]
    IN  setNodes(X, updatedNodes, throws)

\* the changes React Flow reports: a node dragged, a node removed
NodeChanges ==
    {[type |-> "position", id |-> id,
      position |-> Obj([x |-> Num(10), y |-> Num(20)])] : id \in NodeIds}
      \cup {[type |-> "remove", id |-> id, position |-> Undef] : id \in NodeIds}

\* a page load: the module state is created anew, then App and
\* ArgumentCanvas load the stored graph in their mount effects
mount(G) ==
    loadFromLocalStorage(
        [store |-> StoreInit, storage |-> G,
         feLogger |-> feLog([logs |-> <<>>, config |-> feDefaultConfig,
                             timers |-> {}],
                            "info", "store", "store_created",
                            Str("Zustand store created and initialized"),
                            Undef),
         raised |-> FALSE])

\* an item of localStorage that holds the string s as it is
RawItem(s) == [j |-> "raw", s |-> s]

\* the module state of a freshly loaded page: api.ts draws a session id, App
\* starts with apiKeyReady = !!localStorage.getItem('dianoia_provider')
loadPage(G, sessionId) ==
    [sessionId |-> sessionId,
     apiKeyReady |-> G.dianoia_provider # NoItem,
     setup |-> "idle"]

\* the app is mounted on a graph of one claim saved by an earlier visit, in
\* a browser whose provider was set up then
InitGenerate ==
    LET saved == JSONstringify(Graph(<<InitialClaim("n1")>>, <<>>)).text
        X == mount([graph |-> saved,
                    dianoia_provider |-> RawItem("openrouter")])
    IN  /\ SharedLoggerUnused
        /\ openRequests = <<>>
        /\ sessionKeys = NoKeys
        /\ pendingLLM = <<>>
        /\ processEnv = [OPENAI_API_KEY |-> Undef]
        /\ store = X.store
        /\ storage = X.storage
        /\ feLogger = X.feLogger
        /\ generation = <<>>
        /\ page = loadPage(X.storage, "s1")
        /\ last = Call("mount", Undef, Undef) @@ [raised |-> FALSE]
        /\ calls = 0

\* the user clicks a button of the panel, shown for the selected node
HandleActionStart ==
    /\ calls < MaxCalls
    /\ Truthy(store.selectedNode)
    /\ \E action \in Relations :
          /\ CommitFrontend(handleActionStart(Frontend, store.selectedNode,
                                              action),
                            Call("handleAction", [action |-> action], Undef))
          /\ generation' =
                IF store.isLoading THEN generation
                ELSE Append(generation, [sourceNode |-> store.selectedNode,
                                         action |-> action])
          /\ UNCHANGED page

\* the answer to the i-th generation under way arrives
HandleActionResolve ==
    /\ calls < MaxCalls
    /\ \E i \in 1..Len(generation), ok \in BOOLEAN, nodeId \in NodeIds,
          throwsNode \in BOOLEAN, throwsEdge \in BOOLEAN :
          LET g == generation[i]
              body == JSONstringify(
                          generateResponse(g.sourceNode, g.action,
                                           "generated claim", nodeId,
                                           "e-new")).text
          IN  /\ ok \/ (nodeId = "n1" /\ ~throwsNode /\ ~throwsEdge)
              /\ CommitFrontend(handleActionResolve(Frontend, ok, body,
                                                    throwsNode, throwsEdge),
                                Call("resolve", [i |-> i, ok |-> ok], Undef))
              /\ generation' = RemoveAt(generation, i)
              /\ UNCHANGED page

\* the user drags or removes a node on the canvas
OnNodesChange ==
    /\ calls < MaxCalls
    /\ \E c \in NodeChanges, throws \in BOOLEAN :
          /\ CommitFrontend(onNodesChange(Frontend, {c}, throws),
                            Call("onNodesChange",
                                 [type |-> c.type, id |-> c.id,
                                  throws |-> throws], Undef))
          /\ UNCHANGED <<generation, page>>

\* the user reloads the page; requests under way are abandoned
Reload ==
    /\ calls < MaxCalls
    /\ CommitFrontend(mount(storage), Call("reload", Undef, Undef))
    /\ generation' = <<>>
    /\ \E sessionId \in SessionIds : page' = loadPage(storage, sessionId)

NextGenerate ==
    \/ SetSelectedNode
    \/ HandleActionStart
    \/ HandleActionResolve
    \/ AddNode
    \/ OnNodesChange
    \/ UpdateNodeLabel
    \/ Reload

SpecGenerate == InitGenerate /\ [][NextGenerate]_vars

(***************************************************************************)
(* The backend's controller (controllers/argumentController.ts) and the     *)
(* frontend's API key setup (services/api.ts, APIKeySetup, App)             *)
(***************************************************************************)
Providers == {"openai", "openrouter"}

\* an HTTP response: its status
Response(status) == [status |-> status]

\* variant of handleSetupAPIKey: the key is stored before the body is
\* validated
handleSetupAPIKey_storesFirst(L, K, body, suffix) ==
    LET t == startTimer(L, "handleSetupAPIKey",
                        Obj([provider |-> Get(body, "provider"),
                             sessionId |-> Get(body, "sessionId")]), suffix)
        sessionId == Get(body, "sessionId")
        provider == Get(body, "provider")
        apiKey == Get(body, "apiKey")
        model == Get(body, "model")
        set == setSessionKey(t.L, K,
                             IF sessionId.t = "string" THEN sessionId.s ELSE "",
                             [provider |-> IF provider.t = "string"
                                           THEN provider.s ELSE "",
                              apiKey |-> IF apiKey.t = "string"
                                         THEN apiKey.s ELSE "",
                              model |-> model])
        ok == /\ Truthy(sessionId) /\ Truthy(provider) /\ Truthy(apiKey)
              /\ provider \in {Str(x) : x \in Providers}
    IN  [L |-> endTimer(set.L, t.ret, Undef), K |-> set.K,
         sent |-> <<Response(IF ok THEN 200 ELSE 400)>>]

\* handleSetupAPIKey on the logger record L and the session keys K, for the
\* parsed request body; `sent` lists the responses it sends
handleSetupAPIKey(L, K, body, suffix) ==
    LET t == startTimer(L, "handleSetupAPIKey",
                        Obj([provider |-> Get(body, "provider"),
                             sessionId |-> Get(body, "sessionId")]), suffix)
        sessionId == Get(body, "sessionId")
        provider == Get(body, "provider")
        apiKey == Get(body, "apiKey")
        model == Get(body, "model")
        L1 == leveled(t.L, "info", "controller", "setup_key_request",
                      Msg("Received API key setup request", Undef),
                      Obj([provider |-> provider, sessionId |-> sessionId,
                           hasApiKey |-> Bool(Truthy(apiKey))]), Undef)
    IN  IF ~Truthy(sessionId) \/ ~Truthy(provider) \/ ~Truthy(apiKey)
        THEN [L |-> endTimer(
                       leveled(L1, "warn", "controller",
                               "setup_validation_failed",
                               Msg("Missing required fields for API key setup",
                                   Undef),
                               Obj([hasSessionId |-> Bool(Truthy(sessionId)),
                                    hasProvider |-> Bool(Truthy(provider)),
                                    hasApiKey |-> Bool(Truthy(apiKey))]),
                               Undef),
                       t.ret, Undef),
              K |-> K, sent |-> <<Response(400)>>]
        ELSE IF provider \notin {Str(x) : x \in Providers}
        THEN [L |-> endTimer(
                       leveled(L1, "warn", "controller",
                               "setup_validation_failed",
                               Msg("Invalid provider specified", Undef),
                               Obj([provider |-> provider]), Undef),
                       t.ret, Undef),
              K |-> K, sent |-> <<Response(400)>>]
        ELSE LET L2 == leveled(L1, "info", "controller",
                               "setup_validation_passed",
                               Msg("API key setup validation passed", Undef),
                               Obj([sessionId |-> sessionId,
                                    provider |-> provider, model |-> model]),
                               Undef)
                 set == setSessionKey(L2, K, sessionId.s,
                                      [provider |-> provider.s,
                                       apiKey |-> apiKey.s, model |-> model])
                 L3 == leveled(set.L, "info", "controller", "key_stored",
                               Msg("API key stored successfully", Undef),
                               Obj([sessionId |-> sessionId,
                                    provider |-> provider, model |-> model]),
                               Undef)
             IN  [L |-> endTimer(L3, t.ret, Undef), K |-> set.K,
                  sent |-> <<Response(200)>>]

\* the frontend's setupAPIKey up to the await of fetch
setupAPIKeyStart(X, sessionId, provider, apiKey, model) ==
    [X EXCEPT !.feLogger =
        feLog(feLog(feStartTimer(@, "setup_api_key"),
                    "info", "api_service", "setup_key_start",
                    Str("Setting up API key"),
                    Obj([provider |-> Str(provider), model |-> model,
                         hasApiKey |-> Bool(apiKey # ""),
                         sessionId |-> Str(sessionId)])),
              "info", "api", "request", Str("POST /api/setup-key"),
              Obj([sessionId |-> Str(sessionId), provider |-> Str(provider),
                   apiKey |-> Str(apiKey), model |-> model]))]

\* the body setupAPIKey sends
setupRequestBody(sessionId, provider, apiKey, model) ==
    JSONstringify(Obj([sessionId |-> Str(sessionId),
                       provider |-> Str(provider),
                       apiKey |-> Str(apiKey), model |-> model])).text

\* setupAPIKey after the await, followed by the rest of
\* APIKeySetup.handleSubmit and by App.handleSetupComplete; `throws` says
\* whether localStorage.setItem fails.  `ready` is the new apiKeyReady.
setupAPIKeyResolve(X, status, provider, throws) ==
    LET F1 == feLog(X.feLogger, "info", "api", "response",
                    Str("POST /api/setup-key"), Obj([status |-> Num(status)]))
        failed(F, error) ==
            [X |-> [X EXCEPT !.feLogger =
                       feEndTimer(feTrackError(F, error, "api_service",
                                               "setup_key_failed"),
                                  "setup_api_key")],
             ready |-> FALSE]
    IN  IF status \notin 200..299
        THEN failed(feLog(F1, "error", "api_service", "setup_key_error",
                          Str("API key setup failed"),
                          Obj([status |-> Num(status)])), SomeError)
        ELSE IF throws
        THEN failed(F1, QuotaError)
        ELSE LET F2 == feEndTimer(
                           feLog(F1, "info", "api_service", "setup_key_success",
                                 Str("API key setup completed successfully"),
                                 Obj([provider |-> Str(provider)])),
                           "setup_api_key")
                 F3 == feLog(F2, "info", "app", "setup_complete",
                             Str("API key setup completed, switching to main app"),
                             Undef)
             IN  [X |-> loadFromLocalStorage(
                            [X EXCEPT !.feLogger = F3,
                                      !.storage.dianoia_provider =
                                          RawItem(provider)]),
                  ready |-> TRUE]

\* a first visit: nothing is stored in the browser, the backend has started
InitSetup ==
    \E key \in EnvKeys, sessionId \in SessionIds :
        LET L == constructor(NoProps, Undef, Undef, FALSE, Null, Null, "node")
            X == mount(NoStorage)
        IN  /\ config = L.config
            /\ logBuffer = L.logBuffer
            /\ performanceMetrics = L.performanceMetrics
            /\ accepted = L.accepted
            /\ last = Call("constructor", Undef, Undef) @@ [raised |-> L.raised]
            /\ calls = 0
            /\ openRequests = <<>>
            /\ sessionKeys = NoKeys
            /\ pendingLLM = <<>>
            /\ processEnv = [OPENAI_API_KEY |-> key]
            /\ store = X.store
            /\ storage = X.storage
            /\ feLogger = X.feLogger
            /\ generation = <<>>
            /\ page = loadPage(X.storage, sessionId)

\* APIKeySetup.handleSubmit up to the await: shown while apiKeyReady is
\* false; an empty key is refused in the dialog
SubmitSetup ==
    /\ calls < MaxCalls
    /\ ~page.apiKeyReady
    /\ page.setup = "idle"
    /\ \E provider \in Providers, apiKey \in {"", "key-a"} :
          LET sends == apiKey # ""
              X == IF sends
                   THEN setupAPIKeyStart(Frontend, page.sessionId, provider,
                                         apiKey, Undef)
                   ELSE Frontend
          IN  /\ calls' = calls + 1
              /\ last' = Call("handleSubmit", Str(apiKey), Undef)
                            @@ [raised |-> FALSE]
              /\ feLogger' = X.feLogger
              /\ page' = IF sends THEN [page EXCEPT !.setup = "sent"] ELSE page
              /\ openRequests' =
                    IF sends
                    THEN Append(openRequests,
                                [body |-> setupRequestBody(page.sessionId,
                                                           provider, apiKey,
                                                           Undef),
                                 provider |-> provider, awaited |-> TRUE])
                    ELSE openRequests
              /\ UNCHANGED <<config, logBuffer, performanceMetrics, accepted,
                             sessionKeys, pendingLLM, processEnv, store,
                             storage, generation>>

\* the backend handles a setup request; its response reaches the page that
\* sent the request if that page is still loaded
HandleSetupAPIKey ==
    /\ calls < MaxCalls
    /\ \E i \in 1..Len(openRequests), suffix \in Suffixes,
          throws \in BOOLEAN :
          LET req == openRequests[i]
              r == handleSetupAPIKey(Logger, sessionKeys, JSONparse(req.body),
                                     suffix)
              f == setupAPIKeyResolve(Frontend, r.sent[1].status,
                                      req.provider, throws)
          IN  /\ req.awaited \/ ~throws
              /\ CommitLogger(r.L, Call("handleSetupAPIKey", Bool(req.awaited),
                                        r.sent))
              /\ sessionKeys' = r.K
              /\ openRequests' = RemoveAt(openRequests, i)
              /\ IF req.awaited
                 THEN /\ store' = f.X.store
                      /\ storage' = f.X.storage
                      /\ feLogger' = f.X.feLogger
                      /\ page' = [page EXCEPT !.setup = "idle",
                                              !.apiKeyReady = f.ready]
                 ELSE UNCHANGED <<store, storage, feLogger, page>>
              /\ UNCHANGED <<pendingLLM, processEnv, generation>>

\* the user reloads the page: a new module state, a new session id; the
\* requests of the old page are no longer awaited by anyone
ReloadPage ==
    /\ calls < MaxCalls
    /\ CommitFrontend(mount(storage), Call("reload", Undef, Undef))
    /\ \E sessionId \in SessionIds : page' = loadPage(storage, sessionId)
    /\ openRequests' = [i \in 1..Len(openRequests) |->
                           [openRequests[i] EXCEPT !.awaited = FALSE]]
    /\ generation' = <<>>

\* a generate request of the page reaches generateArgument with the page's
\* session id
GenerateArgumentForPage ==
    /\ calls < MaxCalls
    /\ page.apiKeyReady
    /\ \E suffix \in Suffixes :
          LET r == generateArgumentStart(Logger, sessionKeys, processEnv,
                                         Str("claim"), "supports",
                                         Str(page.sessionId), suffix)
          IN  /\ CommitLogger([r.L EXCEPT !.raised = r.threw],
                              Call("generateArgument", Str(page.sessionId),
                                   r.used))
              /\ pendingLLM' = IF r.threw THEN pendingLLM
                               ELSE Append(pendingLLM, r.pending)
              /\ UNCHANGED <<openRequests, sessionKeys, processEnv,
                             frontendVars>>

NextSetup ==
    \/ SubmitSetup
    \/ HandleSetupAPIKey
    \/ ReloadPage
    \/ GenerateArgumentForPage

SpecSetup == InitSetup /\ [][NextSetup]_vars

(***************************************************************************)
(* The backend under concurrent requests: handleGenerate, split at its      *)
(* await of generateArgument (which awaits the provider), handleSetupAPIKey *)
(* and generateArgument called on its own                                   *)
(***************************************************************************)
\* the actions handleGenerate lets through
ValidActions == {"supports", "refutes", "unpacks"}

\* what reading a property of undefined raises
TypeErrorOf(text) ==
    Obj([name |-> Str("TypeError"), message |-> Str(text),
         stack |-> Str("TypeError at f")])

\* variant of handleGenerateFailed: the catch block without the finally
\* block, so the handler's timer is not ended when it answers 500
handleGenerateFailed_noFinally(L, error, body, timerId) ==
    [L |-> trackError(L, error, "controller", "generate_error",
                      Obj([body |-> body,
                           sessionId |-> Get(body, "sessionId")])),
     sent |-> <<Response(500)>>, llm |-> FALSE, used |-> NoConfig,
     waits |-> FALSE]

\* handleGenerate's catch block and finally block
handleGenerateFailed(L, error, body, timerId) ==
    [L |-> endTimer(trackError(L, error, "controller", "generate_error",
                               Obj([body |-> body,
                                    sessionId |-> Get(body, "sessionId")])),
                    timerId, Undef),
     sent |-> <<Response(500)>>, llm |-> FALSE, used |-> NoConfig,
     waits |-> FALSE]

\* variant of handleGenerateStart: the action is not validated
handleGenerateStart_anyAction(L, K, env, body, suffix) ==
    LET t == startTimer(L, "handleGenerate",
                        Obj([action |-> Get(body, "action"),
                             sessionId |-> Get(body, "sessionId")]), suffix)
        sourceNode == Get(body, "sourceNode")
        action == Get(body, "action")
        sessionId == Get(body, "sessionId")
        L1 == leveled(t.L, "info", "controller", "generate_request",
                      Msg("Received generate request", Undef),
                      Obj([body |-> body]), Undef)
        \* res.status(400).json(...); return; finally: endTimer
        badRequest(Lx) ==
            [L |-> endTimer(Lx, t.ret, Undef), sent |-> <<Response(400)>>,
             llm |-> FALSE, used |-> NoConfig, waits |-> FALSE]
    IN  IF ~Truthy(sourceNode) \/ ~Truthy(action)
        THEN badRequest(
                 leveled(L1, "warn", "controller", "validation_failed",
                         Msg("Missing required fields", Undef),
                         Obj([hasSourceNode |-> Bool(Truthy(sourceNode)),
                              hasAction |-> Bool(Truthy(action))]),
                         Undef))
        ELSE LET L2 == leveled(L1, "info", "controller", "validation_passed",
                               Msg("Request validation passed", Undef),
                               Obj([sourceNodeId |-> Get(sourceNode, "id"),
                                    action |-> action,
                                    sessionId |-> sessionId]), Undef)
                 data == Get(sourceNode, "data")
             IN  IF data.t \in {"undefined", "null"}
                 THEN handleGenerateFailed(
                          L2,
                          TypeErrorOf("Cannot read properties of undefined (reading 'label')"),
                          body, t.ret)
                 ELSE LET L3 == leveled(L2, "info", "controller",
                                        "llm_call_start",
                                        Msg("Calling LLM service", Undef),
                                        Obj([claim |-> Get(data, "label"),
                                             action |-> action,
                                             sessionId |-> sessionId]), Undef)
                          \* what follows `await generateArgument(...)`,
                          \* given its outcome g
                          after(g) ==
                              IF g.threw
                              THEN [handleGenerateFailed(
                                        g.L,
                                        ErrorOf("Failed to generate argument from LLM",
                                                Undef),
                                        body, t.ret)
                                    EXCEPT !.llm = TRUE]
                              ELSE [L |-> g.L, sent |-> <<>>, llm |-> TRUE,
                                    used |-> g.used, waits |-> TRUE,
                                    pending |-> g.pending @@
                                        [controller |->
                                            [timerId |-> t.ret, body |-> body]]]
                      IN  CHOOSE r \in
                              { after(g) : g \in
                                  {generateArgumentStart(L3, K, env,
                                                         Get(data, "label"),
                                                         action.s, sessionId,
                                                         suffix)} } : TRUE

\* handleGenerate up to its await.  `sent` lists the responses sent so far,
\* `llm` says whether generateArgument was called, `used` is the
\* configuration handed to the provider, `waits` whether the handler is
\* suspended at the await, with `pending` kept for its continuation.
handleGenerateStart(L, K, env, body, suffix) ==
    LET t == startTimer(L, "handleGenerate",
                        Obj([action |-> Get(body, "action"),
                             sessionId |-> Get(body, "sessionId")]), suffix)
        sourceNode == Get(body, "sourceNode")
        action == Get(body, "action")
        sessionId == Get(body, "sessionId")
        L1 == leveled(t.L, "info", "controller", "generate_request",
                      Msg("Received generate request", Undef),
                      Obj([body |-> body]), Undef)
        \* res.status(400).json(...); return; finally: endTimer
        badRequest(Lx) ==
            [L |-> endTimer(Lx, t.ret, Undef), sent |-> <<Response(400)>>,
             llm |-> FALSE, used |-> NoConfig, waits |-> FALSE]
    IN  IF ~Truthy(sourceNode) \/ ~Truthy(action)
        THEN badRequest(
                 leveled(L1, "warn", "controller", "validation_failed",
                         Msg("Missing required fields", Undef),
                         Obj([hasSourceNode |-> Bool(Truthy(sourceNode)),
                              hasAction |-> Bool(Truthy(action))]),
                         Undef))
        ELSE IF action \notin {Str(a) : a \in ValidActions}
        THEN badRequest(
                 leveled(L1, "warn", "controller", "validation_failed",
                         Msg("Invalid action provided", Undef),
                         Obj([action |-> action]), Undef))
        ELSE LET L2 == leveled(L1, "info", "controller", "validation_passed",
                               Msg("Request validation passed", Undef),
                               Obj([sourceNodeId |-> Get(sourceNode, "id"),
                                    action |-> action,
                                    sessionId |-> sessionId]), Undef)
                 data == Get(sourceNode, "data")
             IN  IF data.t \in {"undefined", "null"}
                 THEN handleGenerateFailed(
                          L2,
                          TypeErrorOf("Cannot read properties of undefined (reading 'label')"),
                          body, t.ret)
                 ELSE LET L3 == leveled(L2, "info", "controller",
                                        "llm_call_start",
                                        Msg("Calling LLM service", Undef),
                                        Obj([claim |-> Get(data, "label"),
                                             action |-> action,
                                             sessionId |-> sessionId]), Undef)
                          \* what follows `await generateArgument(...)`,
                          \* given its outcome g
                          after(g) ==
                              IF g.threw
                              THEN [handleGenerateFailed(
                                        g.L,
                                        ErrorOf("Failed to generate argument from LLM",
                                                Undef),
                                        body, t.ret)
                                    EXCEPT !.llm = TRUE]
                              ELSE [L |-> g.L, sent |-> <<>>, llm |-> TRUE,
                                    used |-> g.used, waits |-> TRUE,
                                    pending |-> g.pending @@
                                        [controller |->
                                            [timerId |-> t.ret, body |-> body]]]
                      IN  CHOOSE r \in
                              { after(g) : g \in
                                  {generateArgumentStart(L3, K, env,
                                                         Get(data, "label"),
                                                         action.s, sessionId,
                                                         suffix)} } : TRUE

\* handleGenerate after its await: generateArgument returned newClaimText
\* (ok) or raised
handleGenerateSettle(L, p, ok, nodeId, edgeId) ==
    LET body == p.controller.body
        sourceNode == Get(body, "sourceNode")
        L1 == generateArgumentSettle(L, p, ok)
    IN  IF ~ok
        THEN handleGenerateFailed(
                 L1, ErrorOf("Failed to generate argument from LLM", Undef),
                 body, p.controller.timerId)
        ELSE LET L2 == leveled(L1, "info", "controller", "llm_call_success",
                               Msg("LLM call completed successfully", Undef),
                               Obj([action |-> Str(p.action)]), Undef)
                 position == Get(sourceNode, "position")
             IN  IF position.t \in {"undefined", "null"}
                 THEN handleGenerateFailed(
                          leveled(L2, "trace", "controller",
                                  "calculate_position",
                                  Msg("Calculating new node position", Undef),
                                  Obj([sourcePosition |-> position]), Undef),
                          TypeErrorOf("Cannot read properties of undefined (reading 'x')"),
                          body, p.controller.timerId)
                 ELSE LET answer == generateResponse(sourceNode, p.action,
                                                     "generated claim", nodeId,
                                                     edgeId)
                          L3 == leveled(
                                    leveled(L2, "trace", "controller",
                                            "calculate_position",
                                            Msg("Calculating new node position",
                                                Undef),
                                            Obj([sourcePosition |-> position]),
                                            Undef),
                                    "trace", "controller", "position_calculated",
                                    Msg("New position calculated", Undef),
                                    Obj([sourcePosition |-> position]), Undef)
                          L4 == leveled(L3, "info", "controller",
                                        "response_ready",
                                        Msg("Generated response ready", Undef),
                                        Obj([newNodeId |-> Str(nodeId),
                                             newEdgeId |-> Str(edgeId),
                                             action |-> Str(p.action)]), Undef)
                      IN  [L |-> endTimer(L4, p.controller.timerId, Undef),
                           sent |-> <<Response(200)>>]

\* the bodies of the generate requests: well formed with and without a
\* session, with an action that is none of the three, without an action,
\* and with a source node that has no data
GenerateBodies ==
    LET node == Node("n1", "claim", "user", 0, 0)
    IN  {Obj([sourceNode |-> node, action |-> Str("supports"),
              sessionId |-> Str("s1")]),
         Obj([sourceNode |-> node, action |-> Str("supports")]),
         Obj([sourceNode |-> node, action |-> Str("explains"),
              sessionId |-> Str("s1")]),
         Obj([sourceNode |-> node, sessionId |-> Str("s1")]),
         Obj([sourceNode |-> Obj([id |-> Str("n1")]),
              action |-> Str("supports"), sessionId |-> Str("s1")])}

\* the bodies of the setup requests: well formed, with a provider that is
\* neither of the two, and without a key
SetupBodies ==
    {Obj([sessionId |-> Str("s1"), provider |-> Str("openrouter"),
          apiKey |-> Str("key-b")]),
     Obj([sessionId |-> Str("s1"), provider |-> Str("azure"),
          apiKey |-> Str("key-c")]),
     Obj([sessionId |-> Str("s1"), provider |-> Str("openai")])}

\* the suffix of the next generated identifier: Date.now() and
\* Math.random() give one that no live timer carries
FreshSuffix ==
    LET used == {id.suffix : id \in DOMAIN performanceMetrics}
    IN  IF Suffixes \subseteq used THEN 0
        ELSE CHOOSE x \in Suffixes \ used :
                \A y \in Suffixes \ used : x <= y

InitBackend ==
    \E env \in BackendEnvironments, key \in EnvKeys :
        LET L == constructor(NoProps, env[1], env[2], FALSE, Null, Null, "node")
        IN  /\ config = L.config
            /\ logBuffer = L.logBuffer
            /\ performanceMetrics = L.performanceMetrics
            /\ accepted = L.accepted
            /\ last = Call("constructor", Undef, Undef) @@ [raised |-> L.raised]
            /\ calls = 0
            /\ openRequests = <<>>
            /\ sessionKeys = NoKeys
            /\ pendingLLM = <<>>
            /\ processEnv = [OPENAI_API_KEY |-> key]
            /\ store = StoreInit
            /\ storage = NoStorage
            /\ feLogger = [logs |-> <<>>, config |-> feDefaultConfig, timers |-> {}]
            /\ generation = <<>>
            /\ page = NoPage

\* POST /api/generate arrives
HandleGenerateStart ==
    /\ calls < MaxCalls
    /\ FreshSuffix \in Suffixes
    /\ \E body \in GenerateBodies :
          \E r \in {handleGenerateStart(Logger, sessionKeys, processEnv, body,
                                       FreshSuffix)} :
              /\ CommitLogger(r.L,
                              Call("handleGenerate", body,
                                   [sent |-> r.sent, llm |-> r.llm,
                                    used |-> r.used, waits |-> r.waits]))
              /\ pendingLLM' = IF r.waits THEN Append(pendingLLM, r.pending)
                               ELSE pendingLLM
              /\ UNCHANGED <<openRequests, sessionKeys, processEnv,
                             frontendVars>>

\* generateArgument is called on its own
GenerateArgumentAlone ==
    /\ calls < MaxCalls
    /\ FreshSuffix \in Suffixes
    /\ \E action \in ActionArgs :
          \E r \in {generateArgumentStart(Logger, sessionKeys, processEnv,
                                         Str("claim"), action, Undef,
                                         FreshSuffix)} :
              /\ CommitLogger([r.L EXCEPT !.raised = r.threw],
                              Call("generateArgument", Str(action),
                                   [sent |-> <<>>, llm |-> TRUE,
                                    used |-> r.used, waits |-> ~r.threw]))
              /\ pendingLLM' = IF r.threw THEN pendingLLM
                               ELSE Append(pendingLLM,
                                           r.pending @@ [controller |-> Undef])
              /\ UNCHANGED <<openRequests, sessionKeys, processEnv,
                             frontendVars>>

\* the provider answers the i-th call under way, or fails; the awaiting
\* generateArgument continues, and after it the handleGenerate that awaits it
ProviderSettles ==
    /\ calls < MaxCalls
    /\ \E i \in 1..Len(pendingLLM), ok \in BOOLEAN :
          \E p \in {pendingLLM[i]} :
          \E r \in {IF p.controller = Undef
                    THEN [L |-> [generateArgumentSettle(Logger, p, ok)
                                    EXCEPT !.raised = ~ok],
                          sent |-> <<>>]
                    ELSE handleGenerateSettle(Logger, p, ok, "n2", "e-new")} :
              /\ CommitLogger(r.L,
                              Call("settle", [i |-> i, ok |-> ok],
                                   [sent |-> r.sent, llm |-> TRUE,
                                    used |-> p.config, waits |-> FALSE]))
              /\ pendingLLM' = RemoveAt(pendingLLM, i)
              /\ UNCHANGED <<openRequests, sessionKeys, processEnv,
                             frontendVars>>

\* POST /api/setup-key arrives
SetupKeyRequest ==
    /\ calls < MaxCalls
    /\ FreshSuffix \in Suffixes
    /\ \E body \in SetupBodies :
          \E r \in {handleSetupAPIKey(Logger, sessionKeys, body, FreshSuffix)} :
              /\ CommitLogger(r.L,
                              Call("handleSetupAPIKey", body,
                                   [sent |-> r.sent, llm |-> FALSE,
                                    used |-> NoConfig, waits |-> FALSE]))
              /\ sessionKeys' = r.K
              /\ UNCHANGED <<openRequests, pendingLLM, processEnv,
                             frontendVars>>

NextBackend ==
    \/ HandleGenerateStart
    \/ GenerateArgumentAlone
    \/ ProviderSettles
    \/ SetupKeyRequest

SpecBackend == InitBackend /\ [][NextBackend]_vars

(***************************************************************************)
(* C11..C20                                                                *)
(***************************************************************************)
IsDebugInit(e, cfg) ==
    /\ e.level = "debug"
    /\ e.component = "system"
    /\ e.action = "debug_init"
    /\ Get(e.data, "config") = ConfigObj(cfg)

\* the levels that admit a debug entry
AdmitsDebug == {"debug", "trace"}

\* C11 as stated, for a resolved level that is one of the five: after
\* construction the buffer holds exactly one entry, the debug-level
\* debug_init entry carrying the resolved configuration, when the resolved
\* configuration is enabled, and is empty when it is disabled.
C11_InitEntryWhenEnabled ==
    (last.op = "constructor" /\ config.level \in LevelSet) =>
        IF config.enabled
        THEN Len(logBuffer) = 1 /\ IsDebugInit(logBuffer[1], config)
        ELSE logBuffer = <<>>

\* C11 amended: after construction the buffer holds exactly one entry, the
\* debug-level debug_init entry carrying the resolved configuration, when the
\* resolved configuration is enabled with level debug or trace; for every
\* other resolved configuration (disabled, level error, warn or info, or a
\* level outside the five) the buffer is empty.
C11_InitEntryWhenDebugAdmitted ==
    last.op = "constructor" =>
        IF config.enabled /\ config.level \in AdmitsDebug
        THEN Len(logBuffer) = 1 /\ IsDebugInit(logBuffer[1], config)
        ELSE logBuffer = <<>>

\* C11 witness: a logger constructed with enabled=false that local storage
\* re-enabled at level trace announced itself with the resolved configuration.
C11_Announced ==
    /\ last.op = "constructor"
    /\ last.arg.cfg = [enabled |-> FALSE]
    /\ last.arg.lsEnabled = Str("true")
    /\ config.enabled
    /\ config.level = "trace"
    /\ Len(logBuffer) = 1
    /\ IsDebugInit(logBuffer[1], config)

\* C12 as stated: in every reachable state the configured level is one of
\* error, warn, info, debug, trace.
C12_LevelIsOneOfFive == config.level \in LevelSet

\* the enabled flag and the level the constructor is said to resolve to:
\* constructor value, then environment, then local storage
ClaimedEnabled(inp) ==
    LET c0 == MergeConfig(DefaultConfig, inp.cfg).enabled
        c1 == IF inp.runtime.node /\ inp.envDebug = Str("false")
              THEN FALSE ELSE c0
    IN  IF inp.runtime.browser /\ inp.lsEnabled # Null
        THEN inp.lsEnabled = Str("true") ELSE c1
ClaimedLevel(inp) ==
    LET c0 == MergeConfig(DefaultConfig, inp.cfg).level
        c1 == IF inp.runtime.node /\ Truthy(inp.envLevel)
              THEN inp.envLevel.s ELSE c0
    IN  IF inp.runtime.browser /\ inp.lsLevel # Null
        THEN inp.lsLevel.s ELSE c1

\* C13 as stated, for stored values that are meaningful ('true' / 'false',
\* one of the five levels) or absent: DIANOIA_DEBUG='false' makes the
\* resolved enabled false, a supplied DIANOIA_DEBUG_LEVEL becomes the
\* resolved level, and an existing local-storage value then replaces
\* enabled / level.
C13_Precedence ==
    (/\ last.op = "constructor"
     /\ last.arg.lsEnabled \in {Null, Str("false"), Str("true")}
     /\ last.arg.lsLevel = Null \/ last.arg.lsLevel.s \in LevelSet) =>
        /\ config.enabled = ClaimedEnabled(last.arg)
        /\ config.level = ClaimedLevel(last.arg)

\* C14: an entry in the buffer is never modified or reordered by a later
\* operation.  Every step other than clearLogs either leaves the buffer as
\* it is or adds one entry at its end, keeping the buffered entries unchanged
\* and in the same order in front of it; the oldest entry is evicted only
\* when the buffer was full.  updateConfig, timer calls and further logging
\* rewrite nothing.
C14_EntriesImmutable ==
    [][\/ Called("clearLogs")
       \/ logBuffer' = logBuffer
       \/ \E k \in {0, 1} :
             LET kept == SubSeq(logBuffer, k + 1, Len(logBuffer))
             IN  /\ Len(logBuffer') = Len(kept) + 1
                 /\ SubSeq(logBuffer', 1, Len(kept)) = kept
                 /\ k = 1 <=> Len(logBuffer) = maxBufferSize]_vars

\* C14 witness: after updateConfig raised the threshold to 'error' the buffer
\* still holds, untouched, the debug-level announcement with the
\* configuration of its time.
C14_NotRetroactive ==
    /\ last.op = "updateConfig"
    /\ config.level = "error"
    /\ Len(logBuffer) > 0
    /\ logBuffer[1].level = "debug"
    /\ logBuffer[1].action = "debug_init"
    /\ Get(logBuffer[1].data, "config") = ConfigObj(DefaultConfig)
    /\ Get(logBuffer[1].data, "config") # ConfigObj(config)

IsApiRequest(e, id) ==
    /\ e.level = "info"
    /\ e.component = "api"
    /\ e.action = "request"
    /\ Get(e.data, "requestId") = StrId(id)
    /\ Get(e.context, "requestId") = StrId(id)

IsApiResponse(e, id) ==
    /\ e.level = "info"
    /\ e.component = "api"
    /\ e.action = "response"
    /\ Get(e.context, "requestId") = StrId(id)

\* C15 as stated, on a backend logger that is enabled with one of the five
\* levels: every request appends one api/request entry carrying the
\* requestId that trackAPIRequest returned, every response to it appends one
\* api/response entry carrying the same requestId, and no two requests that
\* are open at the same time have the same requestId.
C15_EveryRequestAndResponse ==
    [][(config.enabled /\ config.level \in LevelSet) =>
          /\ Called("middleware") =>
                /\ AppendsOne(LAMBDA e : IsApiRequest(e, last'.ret))
                /\ \A i \in 1..Len(openRequests) :
                      openRequests[i].requestId # last'.ret
          /\ \A i \in 1..Len(openRequests) :
                ((Called("res.send") \/ Called("res.end")) /\ last'.arg = i) =>
                    AppendsOne(LAMBDA e :
                        IsApiResponse(e, openRequests[i].requestId))]_vars

\* C15 amended: while the backend logger is enabled with level info, debug
\* or trace, every request appends one api/request entry carrying the
\* requestId trackAPIRequest returned, and every response sent with res.send
\* or res.json appends one api/response entry carrying the requestId of its
\* own request, after that request's entry; otherwise nothing is appended.
\* A response sent without res.send appends nothing.  The response of a
\* request never carries the requestId of another request, but two requests
\* can be given the same requestId when the generator repeats itself.
C15_CorrelatedWhenInfoAdmitted ==
    [][/\ Called("middleware") =>
            /\ openRequests' = Append(openRequests, [requestId |-> last'.ret])
            /\ IF config.enabled /\ config.level \in AdmitsInfo
               THEN AppendsOne(LAMBDA e : IsApiRequest(e, last'.ret))
               ELSE AppendsNothing
       /\ \A i \in 1..Len(openRequests) :
            (Called("res.send") /\ last'.arg = i) =>
                IF config.enabled /\ config.level \in AdmitsInfo
                THEN /\ AppendsOne(LAMBDA e :
                            IsApiResponse(e, openRequests[i].requestId))
                     /\ \E j \in 1..Len(accepted) :
                            IsApiRequest(accepted[j],
                                         openRequests[i].requestId)
                ELSE AppendsNothing
       /\ Called("res.end") => AppendsNothing]_vars

\* C15 witness: two requests with different requestIds were open together
\* and the one that arrived second was answered first; its response entry
\* carries its own requestId.
C15_Interleaved ==
    /\ last.op = "res.send"
    /\ last.arg = 2
    /\ Len(openRequests) = 1
    /\ Len(accepted) >= 3
    /\ LET n == Len(accepted)
       IN  /\ accepted[n - 2].action = "request"
           /\ accepted[n - 1].action = "request"
           /\ accepted[n].action = "response"
           /\ Get(accepted[n].context, "requestId")
                 = Get(accepted[n - 1].context, "requestId")
           /\ Get(accepted[n].context, "requestId")
                 # Get(accepted[n - 2].context, "requestId")
           /\ Get(accepted[n - 2].context, "requestId")
                 = StrId(openRequests[1].requestId)

\* C18 as stated: once a level has been chosen in the debug panel, a
\* frontend log call of a lower severity (a higher rank) is not retained by
\* the frontend logger.
C18_PanelLevelFilters ==
    [][\A m \in feMethods :
          (/\ Called(m)
           /\ "level" \in DOMAIN feLogger.config
           /\ Rank(m) > Rank(feLogger.config.level)) =>
              feLogger'.logs = feLogger.logs]_vars

\* the configuration generateArgument must use for the session argument sid
\* when the stored configurations are K: the one stored for sid, else the
\* environment key, else none
ConfigFor(sid, K, env) ==
    IF Truthy(sid) /\ sid.s \in DOMAIN K THEN K[sid.s]
    ELSE IF Truthy(env.OPENAI_API_KEY)
    THEN [provider |-> "openai", apiKey |-> env.OPENAI_API_KEY.s,
          model |-> Str("text-davinci-003")]
    ELSE NoConfig

\* C19: API keys are per session.  setSessionKey(S, c) makes c the
\* configuration of S and changes the configuration of no other session, and
\* nothing else changes a stored configuration; generateArgument for S sends
\* the provider the configuration last stored for S, or the environment key
\* when S has none (no key at all when there is neither), and never a
\* configuration stored for a different session.
C19_KeysPerSession ==
    [][/\ \A sid \in SessionIds :
            (Called("setSessionKey") /\ last'.arg = Str(sid)) =>
                /\ sessionKeys'[sid] = last'.ret
                /\ \A other \in SessionIds \ {sid} :
                      /\ other \in DOMAIN sessionKeys' <=>
                            other \in DOMAIN sessionKeys
                      /\ other \in DOMAIN sessionKeys =>
                            sessionKeys'[other] = sessionKeys[other]
       /\ ~Called("setSessionKey") => sessionKeys' = sessionKeys
       /\ \A sid \in SessionArgs :
            (Called("generateArgument") /\ last'.arg = sid) =>
                LET used == last'.ret
                    mine == ConfigFor(sid, sessionKeys, processEnv)
                IN  /\ used = mine \/ used = NoConfig
                    /\ used = NoConfig =>
                          (mine = NoConfig \/ last'.raised)]_vars

\* C19 witness: two sessions hold different configurations, and
\* generateArgument for the first sent the provider the configuration stored
\* for the first.
C19_OwnKeyUsed ==
    /\ last.op = "generateArgument"
    /\ last.arg = Str("s1")
    /\ DOMAIN sessionKeys = {"s1", "s2"}
    /\ sessionKeys["s1"] # sessionKeys["s2"]
    /\ last.ret = sessionKeys["s1"]
    /\ Len(pendingLLM) = 1

\* the store actions that write the graph to localStorage on their own
PersistingActions ==
    {"addNode", "addEdge", "updateNodeLabel", "setNodes", "setEdges"}

\* C16: after each of addNode, addEdge, updateNodeLabel, setNodes and
\* setEdges completes with a working localStorage, the graph stored under
\* 'dianoia-graph' reads back as the store's current nodes and edges; no
\* other store action changes the graph or what is stored (a manual save
\* stores the current graph), and loadFromLocalStorage sets the store's nodes
\* and edges to exactly the stored graph.
C16_GraphPersisted ==
    [][/\ \A op \in PersistingActions :
            (Called(op) /\ ~last'.arg.throws) =>
                /\ storage'.graph # NoItem
                /\ SameValue(JSONparse(storage'.graph),
                             Graph(store'.nodes, store'.edges))
       /\ (Called("setSelectedNode") \/ Called("setLoading")) =>
            /\ storage' = storage
            /\ store'.nodes = store.nodes
            /\ store'.edges = store.edges
       /\ Called("saveToLocalStorage") =>
            /\ store' = store
            /\ IF last'.arg.throws THEN storage' = storage
               ELSE SameValue(JSONparse(storage'.graph),
                              Graph(store.nodes, store.edges))
       /\ Called("loadFromLocalStorage") =>
            /\ storage' = storage
            /\ IF storage.graph = NoItem
               THEN store' = store
               ELSE SameValue(Graph(store'.nodes, store'.edges),
                              JSONparse(storage.graph))]_vars

\* C16 witness: a graph of one node and one edge was read back from
\* localStorage into the store.
C16_Restored ==
    /\ last.op = "loadFromLocalStorage"
    /\ Len(store.nodes) = 1
    /\ Len(store.edges) = 1
    /\ storage.graph # NoItem
    /\ SameValue(JSONparse(storage.graph), Graph(store.nodes, store.edges))

\* the last entry of the frontend log reports the failed write
ReportsSaveFailure(F) ==
    /\ Len(F.logs) > 0
    /\ LET e == F.logs[Len(F.logs)]
       IN  /\ e.level = "error"
           /\ e.category = "store"
           /\ e.action \in {"localStorage_save_error", "manual_save_error"}
           /\ e.message = Get(QuotaError, "message")

\* C20: when localStorage.setItem throws during addNode, addEdge,
\* updateNodeLabel, setNodes, setEdges or saveToLocalStorage, no exception
\* reaches the caller, what is stored stays as it was, the in-memory update
\* is made all the same, and the failure is handed to trackError, which
\* records an error entry unless the frontend logger is disabled.
C20_SaveFailureContained ==
    [][\A op \in PersistingActions \cup {"saveToLocalStorage"} :
          (Called(op) /\ last'.arg.throws) =>
              /\ ~last'.raised
              /\ storage' = storage
              /\ feLogger.config.enabled => ReportsSaveFailure(feLogger')
              /\ op = "addNode" =>
                    store'.nodes = Append(store.nodes, last'.arg.node)
              /\ op = "addEdge" =>
                    store'.edges = Append(store.edges, last'.arg.edge)
              /\ op = "updateNodeLabel" =>
                    /\ Len(store'.nodes) = Len(store.nodes)
                    /\ \A i \in 1..Len(store.nodes) :
                          IF Get(store.nodes[i], "id") = Str(last'.arg.nodeId)
                          THEN Get(Get(store'.nodes[i], "data"), "label")
                                  = Str(last'.arg.label)
                          ELSE store'.nodes[i] = store.nodes[i]
              /\ op = "setNodes" => store'.nodes = last'.arg.nodes
              /\ op = "setEdges" => store'.edges = last'.arg.edges
              /\ op = "saveToLocalStorage" => store' = store]_vars

\* C20 witness: addNode met a failing setItem on an empty store: the node is
\* in the store, nothing is stored, and the log ends with the error entry.
C20_NodeKeptUnsaved ==
    /\ last.op = "addNode"
    /\ last.arg.throws
    /\ ~last.raised
    /\ Len(store.nodes) = 1
    /\ storage.graph = NoItem
    /\ ReportsSaveFailure(feLogger)

\* the nodes / edges of the graph stored under 'dianoia-graph'
StoredNodes(G) == OrEmpty(Get(JSONparse(G.graph), "nodes"))
StoredEdges(G) == OrEmpty(Get(JSONparse(G.graph), "edges"))

\* C17: a click on the button of relation A starts a generation for the
\* selected claim, and when it succeeds exactly one node, authored by 'llm',
\* is appended to the store's nodes and exactly one edge to its edges, the
\* edge leading from the selected claim's id to the new node's id with
\* relation A.  The node is added before the edge: whichever writes to
\* localStorage fail, the stored graph never holds the new edge without the
\* new node.  A failed generation adds nothing.
C17_OneNodeOneEdge ==
    [][/\ (Called("handleAction") /\ ~store.isLoading) =>
            generation' = Append(generation,
                                 [sourceNode |-> store.selectedNode,
                                  action |-> last'.arg.action])
       /\ \A i \in 1..Len(generation) :
            (Called("resolve") /\ last'.arg.i = i) =>
                IF last'.arg.ok
                THEN LET g == generation[i]
                         n == Len(store.nodes)
                         m == Len(store.edges)
                     IN  /\ Len(store'.nodes) = n + 1
                         /\ SubSeq(store'.nodes, 1, n) = store.nodes
                         /\ Len(store'.edges) = m + 1
                         /\ SubSeq(store'.edges, 1, m) = store.edges
                         /\ LET node == store'.nodes[n + 1]
                                edge == store'.edges[m + 1]
                            IN  /\ Get(Get(node, "data"), "author") = Str("llm")
                                /\ Get(edge, "source") = Get(g.sourceNode, "id")
                                /\ Get(edge, "target") = Get(node, "id")
                                /\ Get(Get(edge, "data"), "relation")
                                      = Str(g.action)
                                /\ (\E k \in 1..Len(StoredEdges(storage')) :
                                       StoredEdges(storage')[k] = edge)
                                     => \E k \in 1..Len(StoredNodes(storage')) :
                                           StoredNodes(storage')[k] = node
                ELSE store'.nodes = store.nodes /\ store'.edges = store.edges]_vars

\* C17 witness: a generation for the selected claim n1 succeeded; the store
\* holds the claim, the new node authored by the LLM and the edge n1 -> new
\* node.
C17_Generated ==
    /\ last.op = "resolve"
    /\ last.arg.ok
    /\ Len(store.nodes) = 2
    /\ Len(store.edges) = 1
    /\ Get(Get(store.nodes[1], "data"), "author") = Str("user")
    /\ Get(Get(store.nodes[2], "data"), "author") = Str("llm")
    /\ Get(store.nodes[2], "id") = Str("n2")
    /\ Get(store.edges[1], "source") = Str("n1")
    /\ Get(store.edges[1], "target") = Str("n2")
    /\ ~store.isLoading

C22_EndTimerNoOp ==
    [][(Called("endTimer")
          /\ (~config.enabled \/ ~config.includePerformance
                \/ last'.arg = EmptyId)) =>
              /\ AppendsNothing
              /\ performanceMetrics' = performanceMetrics
              /\ config' = config
              /\ ~last'.raised]_vars

\* C22 witness: the logger started disabled, was enabled again (the buffer
\* holds the config_updated entry of that call and nothing else), and the
\* empty identifier was ended at a level that admits warnings: no 'Timer not
\* found' entry followed.
C22_EmptyIdAfterReenable ==
    /\ last.op = "endTimer"
    /\ last.arg = EmptyId
    /\ config.enabled /\ config.includePerformance
    /\ config.level \in AdmitsWarn
    /\ Len(logBuffer) = 1
    /\ IsConfigUpdate(logBuffer[1], [config EXCEPT !.enabled = FALSE], config)
    /\ DOMAIN performanceMetrics = {}

\* every edge of the graph leads from the id of one of its nodes to the id
\* of one of its nodes
EdgesJoinNodes(nodes, edges) ==
    \A k \in 1..Len(edges) :
        /\ \E i \in 1..Len(nodes) :
              Get(nodes[i], "id") = Get(edges[k], "source")
        /\ \E i \in 1..Len(nodes) :
              Get(nodes[i], "id") = Get(edges[k], "target")

LabelOf(node) == Get(Get(node, "data"), "label")

\* C27: the claim text handleAction sends to the backend (the label of the
\* source node in the request body) equals the label that node has in the
\* store's nodes at that moment, also when updateNodeLabel changed the label
\* after the node was selected.
C27_SendsCurrentLabel ==
    [][(Called("handleAction") /\ ~store.isLoading) =>
          LET sent == generation'[Len(generation')].sourceNode
          IN  \A i \in 1..Len(store.nodes) :
                 Get(store.nodes[i], "id") = Get(sent, "id") =>
                     LabelOf(sent) = LabelOf(store.nodes[i])]_vars

\* C28: the loading flag brackets each generation.  isLoading is true exactly
\* while a request is under way and at most one request is under way; a
\* click while isLoading is true changes nothing; any other click sets
\* isLoading and starts the one request; when the request settles, with an
\* answer or a failure, isLoading is false again.
C28_LoadingBrackets ==
    /\ [](/\ Len(generation) <= 1
          /\ store.isLoading <=> Len(generation) = 1)
    /\ [][/\ Called("handleAction") =>
               IF store.isLoading
               THEN /\ store' = store
                    /\ storage' = storage
                    /\ feLogger' = feLogger
                    /\ generation' = generation
               ELSE /\ store'.isLoading
                    /\ Len(generation') = 1
          /\ Called("resolve") =>
               /\ ~store'.isLoading
               /\ generation' = <<>>]_vars

\* C28 witness: a request failed and the flag is false again.
C28_FailureSettled ==
    /\ last.op = "resolve"
    /\ ~last.arg.ok
    /\ ~store.isLoading
    /\ generation = <<>>
    /\ store.edges = <<>>

\* C29: the node a successful generation adds lies directly below the node
\* it was generated from: its x is that node's x in the store's nodes and its
\* y is that node's y plus 150, also after the source node was dragged.
C29_BelowSource ==
    [][\A i \in 1..Len(generation) :
          (Called("resolve") /\ last'.arg.i = i /\ last'.arg.ok) =>
              LET added == store'.nodes[Len(store'.nodes)]
              IN  \A k \in 1..Len(store.nodes) :
                     Get(store.nodes[k], "id")
                        = Get(generation[i].sourceNode, "id") =>
                         LET at == Get(store.nodes[k], "position")
                         IN  Get(added, "position") =
                                Obj([x |-> Get(at, "x"),
                                     y |-> Num(Get(at, "y").n + 150)])]_vars

\* C25: whenever the frontend treats the API key as configured (the
\* provider is stored in localStorage, so a loaded page skips the setup
\* dialog), the backend holds a session key for the session id the page sends
\* with its generate requests; after any sequence of setup, reload and
\* generate steps.
C25_ConfiguredMeansKeyed ==
    (page # NoPage /\ storage.dianoia_provider # NoItem) =>
        page.sessionId \in DOMAIN sessionKeys

(***************************************************************************)
(* Backend requests: vocabulary of C23, C24, C30                           *)
(***************************************************************************)
\* the entries the step recorded
NewEntries == SubSeq(accepted', Len(accepted) + 1, Len(accepted'))
\* an entry written by trackError: error level, with the error's name and
\* message
IsFailureEntry(e) ==
    /\ e.level = "error"
    /\ e.data.t = "object"
    /\ Truthy(Get(e.data, "name"))
    /\ Truthy(Get(e.data, "message"))
\* the call c hands over an action that is none of the three
UnknownActionCall(c) ==
    \/ /\ c.op = "handleGenerate"
       /\ Truthy(Get(c.arg, "action"))
       /\ Get(c.arg, "action") \notin {Str(a) : a \in ValidActions}
    \/ /\ c.op = "generateArgument"
       /\ c.arg \notin {Str(a) : a \in ValidActions}
\* the step put no call to a provider under way
NoProviderCall == pendingLLM' = pendingLLM /\ ~last'.ret.waits

\* C23 as stated: an action other than supports, refutes or unpacks never
\* reaches a provider and is recorded as an error-level entry that carries
\* the failure's name and message, whichever entry point received it.
C23_CapturedAsError ==
    [][UnknownActionCall(last') =>
          /\ NoProviderCall
          /\ \E i \in 1..Len(NewEntries) : IsFailureEntry(NewEntries[i])]_vars

\* C23: an action other than supports, refutes or unpacks never reaches a
\* provider.  Handed to generateArgument it raises, and a logger that admits
\* the error level records an error-level entry with the failure's name and
\* message; handed to handleGenerate it is answered with the single response
\* 400 without calling the LLM service and without any error-level entry,
\* and a logger that admits the warn level records the warn-level entry
\* validation_failed.
C23_UnknownActionRejected ==
    [][UnknownActionCall(last') =>
          /\ NoProviderCall
          /\ last'.op = "generateArgument" =>
                /\ last'.raised
                /\ shouldLog(config, "error") =>
                      \E i \in 1..Len(NewEntries) :
                         IsFailureEntry(NewEntries[i])
          /\ last'.op = "handleGenerate" =>
                /\ last'.ret.sent = <<Response(400)>>
                /\ ~last'.ret.llm
                /\ \A i \in 1..Len(NewEntries) :
                      NewEntries[i].level # "error"
                /\ shouldLog(config, "warn") =>
                      \E i \in 1..Len(NewEntries) :
                         /\ NewEntries[i].level = "warn"
                         /\ NewEntries[i].action = "validation_failed"]_vars

\* handleGenerate has just answered 400 to the action "explains" and the
\* log holds its warn-level entry, with no error-level entry at all
C23_WarnedNotTracked ==
    /\ last.op = "handleGenerate"
    /\ Get(last.arg, "action") = Str("explains")
    /\ last.ret.sent = <<Response(400)>>
    /\ \E i \in 1..Len(accepted) :
          /\ accepted[i].level = "warn"
          /\ accepted[i].action = "validation_failed"
    /\ \A i \in 1..Len(accepted) : accepted[i].level # "error"

\* the identifiers of the timers that the requests under way have started
\* and not yet ended: generateArgument's, the provider call's and, when
\* handleGenerate made the call, the handler's
PendingTimers ==
    UNION { {pendingLLM[i].timerId, pendingLLM[i].callTimerId}
               \cup (IF pendingLLM[i].controller = Undef THEN {}
                     ELSE {pendingLLM[i].controller.timerId})
            : i \in 1..Len(pendingLLM) } \ {EmptyId}

InvalidGenerate(body) ==
    \/ ~Truthy(Get(body, "sourceNode"))
    \/ ~Truthy(Get(body, "action"))
    \/ Get(body, "action") \notin {Str(a) : a \in ValidActions}
\* the body fails handleSetupAPIKey's validation: sessionId, provider or
\* apiKey is missing, or the provider is neither of the two
InvalidSetup(body) ==
    \/ ~Truthy(Get(body, "sessionId"))
    \/ ~Truthy(Get(body, "provider"))
    \/ ~Truthy(Get(body, "apiKey"))
    \/ Get(body, "provider") \notin {Str(x) : x \in Providers}

====
